---------------------------- MODULE Spec2Model ----------------------------
(***************************************************************************)
(* Verification model of delivery-route-api (Go).                          *)
(*                                                                         *)
(* Components, each with its own variables, actions and specification:     *)
(*   - the pairwise fan-out of services.PlanDeliveries (Spec, SpecPool);   *)
(*   - ORSDistanceProvider.doWithRetry under a shared context (SpecRetry); *)
(*   - ORSDistanceProvider.GetDistances over its caches (SpecResolve);     *)
(*   - services.AssignPackagesByDistance and Truck.Load (SpecAssign).      *)
(* A specification leaves the variables of the other components at their   *)
(* idle values.                                                            *)
(***************************************************************************)
EXTENDS Integers, Sequences, FiniteSets, TLC

(***************************************************************************)
(* Bounds of the model and constants of the program.                       *)
(***************************************************************************)
\* number of destinations (= origin workers) of the ordered fan-out
NumDests == 3
\* number of destinations of the slot-pool run (more workers than slots)
PoolDests == 6
\* number of concurrent callers of doWithRetry under one shared context
NumCallers == 2
\* sem := make(chan struct{}, 5)
SemCap == 5
\* const maxAttepts = 4
MaxAttempts == 4
\* backoff := 200 * time.Millisecond
InitialBackoffMs == 200

Hub == 0

(***************************************************************************)
(* Variables of the PlanDeliveries fan-out (part_002 lines 94-191).        *)
(***************************************************************************)
VARIABLES
    destinations,  \* the destination set of the request (origins of the fan-out)
    padded,        \* some package is stored with whitespace around its destination
    providerKinds, \* per origin: the outcomes the request's provider can produce
    pcMain,        \* position of the PlanDeliveries goroutine
    pc,            \* position of every origin worker goroutine
    semLen,        \* number of tokens in the sem channel
    wg,            \* the WaitGroup counter
    resultsCh,     \* the buffered results channel (sequence of pairwiseResult)
    closed,        \* resultsCh has been closed
    ctxDone,       \* "live", or who cancelled the derived context first
    resolved,      \* per worker: how its resolver call ended ("none" before)
    pairwiseDist,  \* the local pairwise map, keyed by <<origin, target>>
    pairwiseErr,   \* first error read from resultsCh ("nil" if none)
    ret            \* what PlanDeliveries returned: [err, hasPlans, plansFrom]

fanVars == <<destinations, padded, providerKinds, pcMain, pc, semLen, wg, resultsCh, closed,
             ctxDone, resolved, pairwiseDist, pairwiseErr, ret>>

(***************************************************************************)
(* Variables of ORSDistanceProvider.doWithRetry (part_008 lines 58-113),    *)
(* one call per origin worker.                                             *)
(***************************************************************************)
VARIABLES
    upstream,      \* the outcomes the HTTP server can give to a request
    trace,         \* TRUE: the histories hist, waits and sent are recorded
    attempt,       \* per caller: the loop counter `attempt`
    backoff,       \* per caller: the local `backoff`, in milliseconds
    lastErr,       \* per caller: the local `lastErr`
    hist,          \* per caller: what each call of o.do returned, in order
    waits,         \* per caller: the backoff waits that ran to the end, in order
    sent           \* per caller: the number of HTTP requests sent

retryVars == <<upstream, trace, attempt, backoff, lastErr, hist, waits, sent>>

(***************************************************************************)
(* Variables of ORSDistanceProvider.GetDistances                           *)
(* (mock_distance_provider.go lines 133-310), one call over the two caches. *)
(***************************************************************************)
VARIABLES
    gOrigin,        \* argument `origin`
    gDests,         \* argument `destinations`
    gpc,            \* position of the call
    distanceCache,  \* table distance_cache: <<origin, destination>> -> DistanceResult
    geocodeCache,   \* table geocode_cache: address -> Coordinates
    cacheAtCall,    \* the two tables as they were when the call began
    destinationHits,\* the local `destinationHits`
    geocodeHits,    \* the local `geocodeHits`
    fresh,          \* the local `fresh`
    fetched,        \* the local `fetched`
    gRet,           \* what the call returned: [err, hasMap, out]
    geocodeSent,    \* number of geocode requests issued upstream
    matrixSent,     \* the destination lists of the matrix requests issued
    cachePuts,      \* number of PutMany calls made: [distance, geocode]
    cacheFaults,    \* the cache operations of the call that returned an error
    gCall,          \* 1: the first call with these arguments; 2: its repetition
    gPrev           \* once the call is repeated: what the first call returned,
                    \* and the cache operations of it that failed

resolveVars == <<gOrigin, gDests, gpc, distanceCache, geocodeCache, cacheAtCall, destinationHits,
                 geocodeHits, fresh, fetched, gRet, geocodeSent, matrixSent, cachePuts,
                 cacheFaults, gCall, gPrev>>

(***************************************************************************)
(* Variables of services.AssignPackagesByDistance (part_001 lines 16-74).  *)
(***************************************************************************)
VARIABLES
    aDestinations,  \* argument `destinations` (sorted in place at line 27)
    aDistances,     \* argument `distances`: destination -> DistanceMeters
    aTrucks,        \* argument `trucks`: [TruckID, Capacity, Packages]
    apc,            \* position of the call
    ti,             \* the loop counter `ti` (0-based)
    di,             \* position in destinations[start:end] (0-based, absolute)
    pi,             \* position in pkgDest[d] (1-based)
    aErr            \* what the call returned ("unset" before)

assignVars == <<aDestinations, aDistances, aTrucks, apc, ti, di, pi, aErr>>

(***************************************************************************)
(* Variables of services.NearestNeighborRoute                              *)
(* (internal/api/dto/package.go lines 204-314), one call.                  *)
(***************************************************************************)
VARIABLES
    rTruck,                \* argument `truck`: [TruckID, StartLocation, Packages]
    rDistances,            \* argument `distances`: key "from|to" -> DistanceResult
    rReturnToStart,        \* argument `returnToStart`
    rpc,                   \* position of the call
    remainingDestinations, \* the local map `remainingDestinations`, as a set
    currentLocation,       \* the local `currentLocation`
    currentTime,           \* the local `currentTime`, in seconds
    stops,                 \* the local `stops`
    totalDistanceMeters,   \* the local `totalDistanceMeters`
    totalDurationSeconds,  \* the local `totalDurationSeconds`
    picks,                 \* per stop: the destinations that remained, and where from
    rLookups,              \* the keys of `distances` the call has read
    rRet                   \* what the call returned: [err, to, hasPlan, plan]

routeVars == <<rTruck, rDistances, rReturnToStart, rpc, remainingDestinations,
               currentLocation, currentTime, stops, totalDistanceMeters,
               totalDurationSeconds, picks, rLookups, rRet>>

\* --- one domain.Truck under Load, LoadMultiple and Clear ---
VARIABLES
    tTruck,   \* the truck: [TruckID, Capacity, Packages]
    tOp,      \* the last operation called on it ("idle": no truck in use)
    tBefore,  \* t.Packages when the last operation was called
    tErr,     \* the error the last operation returned
    tOps      \* the number of operations called so far

truckVars == <<tTruck, tOp, tBefore, tErr, tOps>>


\* --- one PlanDeliveries call ---
VARIABLES
    pPkgs,           \* the packages repo.ListPackages holds
    pRepoErr,        \* TRUE: repo.ListPackages returns an error
    pTruckCount,     \* req.TruckCount
    pTruckCapacity,  \* req.TruckCapacity
    pReturnToStart,  \* req.ReturnToStart
    pMatrix,         \* TRUE: the provider is a DistanceMatrixProvider
    ppc,             \* position of the call
    pPkgDest,        \* pkgDest: trimmed destination -> its packages
    pDestinations,   \* destinations
    pHubDist,        \* distances: destination -> result from the hub
    pTrucks,         \* trucks, as NearestNeighborRoute reads them
    pPairwiseDist,   \* pairwiseDist
    pTi,             \* trucks already planned
    plans,           \* plans
    pRet,            \* what the call returned
    resolverCalls    \* calls of the provider made so far

pInputs == <<pPkgs, pRepoErr, pTruckCount, pTruckCapacity, pReturnToStart, pMatrix>>

planVars == <<pInputs, ppc, pPkgDest, pDestinations, pHubDist, pTrucks, pPairwiseDist,
              pTi, plans, pRet, resolverCalls>>


\* --- ApplyPlan calls on one truck ---
VARIABLES
    apTruck,   \* the truck: [TruckID, DepartAt, Packages], each package a
               \* record [PackageID, LoadedAt, DeliveredAt]
    apPlan,    \* argument `plan` of the last call
    apBefore,  \* t.Packages when the last call was made
    apErr,     \* what the last call returned ("unset" before)
    apState    \* "idle": no truck in use; "new": no call yet; "applied": one
               \* call made; "again": two calls made

applyVars == <<apTruck, apPlan, apBefore, apErr, apState>>


\* --- one POST /plans request in PlanHandler.Plan ---
VARIABLES
    hReq,     \* the request and the handler's DefaultHub: [method, body, hub,
              \* defaultHub, truckCount, truckCapacity, returnToStart]
    hStatus,  \* the HTTP status written (0: none yet)
    hpc       \* "idle", "received", "planning" (PlanDeliveries is running),
              \* "responded"

handlerVars == <<hReq, hStatus, hpc>>


\* --- PutMany calls of several callers on one cache table ---
VARIABLES
    sCache,   \* "distance" (table distance_cache) or "geocode" (geocode_cache);
              \* "none": no table in use
    sTable,   \* the committed rows of the table: a set of [key, value]
    sTx,      \* per writer, its PutMany call: [pc, todo, done, value, contended]:
              \* the keys of `results` still to be written, in the order of
              \* the range loop, those written, the value written, and whether
              \* another open transaction had a key of this one
    sKeys,    \* the keys the calls of the run can name
    sRead,    \* what the last GetMany returned, and the committed values then
    sLast     \* key -> the value of the last committed transaction that
              \* wrote the key

storeVars == <<sCache, sTable, sTx, sLast, sKeys, sRead>>


\* --- the merge of the fan-out's results, with the keys as strings ---
VARIABLES
    mNames,   \* the destinations of the request (trimmed names)
    mQueue,   \* the results still in resultsCh, in the order they were sent
    mMap,     \* pairwiseDist: "origin|target" -> DistanceResult
    mState    \* "idle", "merge", "done"

mergeVars == <<mNames, mQueue, mMap, mState>>


\* --- GetDistances calls at the same time on the caches they share ---
VARIABLES
    shCalls,     \* per caller, its GetDistances call: [origin, dests, pc,
                 \* destinationHits, geocodeHits, fresh, fetched, err, call]
    shDistance,  \* the distance cache: <<origin, destination>> -> DistanceResult
    shGeocode    \* the geocode cache: address -> Coordinates

sharedVars == <<shCalls, shDistance, shGeocode>>


\* --- geocodeMany: the fan-out of the geocode requests ---
VARIABLES
    gmAddresses,  \* argument `addresses`
    gmUnique,     \* the local `unique`
    gmFailing,    \* the addresses whose request the server fails
    gmMain,       \* position of geocodeMany: "idle", "dispatch", "wait", "close", "merge", "done"
    gmPc,         \* position of the goroutine of each unique address
    gmSem,        \* len(sem)
    gmWg,         \* counter of the WaitGroup
    gmCh,         \* resultsCh
    gmCtx,        \* the derived context: "live" or "done"
    gmOut,        \* the local `out`
    gmErr,        \* the local `geocodeErr`
    gmRet         \* what the call returned: [err, hasMap, out]

geoVars == <<gmAddresses, gmUnique, gmFailing, gmMain, gmPc, gmSem, gmWg, gmCh, gmCtx, gmOut, gmErr, gmRet>>


\* the variables of the components a fan-out or retry step leaves alone
libVars == <<resolveVars, assignVars, routeVars, truckVars, planVars, applyVars, handlerVars, storeVars, mergeVars, geoVars, sharedVars>>

\* the variables a step of GetDistances leaves alone
outsideResolve == <<fanVars, retryVars, assignVars, routeVars, truckVars, planVars, applyVars, handlerVars, storeVars, mergeVars, geoVars, sharedVars>>

\* the variables a step of AssignPackagesByDistance leaves alone
outsideAssign == <<fanVars, retryVars, resolveVars, routeVars, truckVars, planVars, applyVars, handlerVars, storeVars, mergeVars, geoVars, sharedVars>>

\* the variables a step of NearestNeighborRoute leaves alone
outsideRoute == <<fanVars, retryVars, resolveVars, assignVars, truckVars, planVars, applyVars, handlerVars, storeVars, mergeVars, geoVars, sharedVars>>

\* the variables an operation on a truck leaves alone
outsideTruck == <<fanVars, retryVars, resolveVars, assignVars, routeVars, planVars, applyVars, handlerVars, storeVars, mergeVars, geoVars, sharedVars>>

\* the variables a step of PlanDeliveries itself leaves alone
outsidePlan == <<fanVars, retryVars, resolveVars, assignVars, routeVars, truckVars, applyVars, handlerVars, storeVars, mergeVars, geoVars, sharedVars>>

\* the variables PlanDeliveries leaves alone when it calls
\* AssignPackagesByDistance, and when it calls NearestNeighborRoute
outsidePlanAssign == <<fanVars, retryVars, resolveVars, routeVars, truckVars, applyVars, handlerVars, storeVars, mergeVars, geoVars, sharedVars>>

outsidePlanRoute == <<fanVars, retryVars, resolveVars, assignVars, truckVars, applyVars, handlerVars, storeVars, mergeVars, geoVars, sharedVars>>

\* the variables PlanDeliveries leaves alone when it starts the fan-out,
\* and when it leaves the range over resultsCh
outsidePlanFan == <<retryVars, resolveVars, assignVars, routeVars, truckVars, applyVars, handlerVars, storeVars, mergeVars, geoVars, sharedVars>>

\* the variables the handler leaves alone when it responds, and when it
\* calls PlanDeliveries
outsideHandler == <<fanVars, retryVars, resolveVars, assignVars, routeVars, truckVars, planVars, applyVars, storeVars, mergeVars, geoVars, sharedVars>>

outsideHandlerPlan == <<fanVars, retryVars, resolveVars, assignVars, routeVars, truckVars, applyVars, storeVars, mergeVars, geoVars, sharedVars>>

\* the variables a step of PutMany leaves alone
outsideStore == <<fanVars, retryVars, resolveVars, assignVars, routeVars, truckVars, planVars, applyVars, handlerVars, mergeVars, geoVars, sharedVars>>

\* the variables a step of the merge leaves alone
outsideMerge == <<fanVars, retryVars, resolveVars, assignVars, routeVars, truckVars, planVars, applyVars, handlerVars, storeVars, geoVars, sharedVars>>

\* the variables a step of geocodeMany leaves alone
outsideGeo == <<fanVars, retryVars, resolveVars, assignVars, routeVars, truckVars, planVars, applyVars, handlerVars, storeVars, mergeVars, sharedVars>>

\* the variables a step of concurrent GetDistances calls leaves alone
outsideShared == <<fanVars, retryVars, resolveVars, assignVars, routeVars, truckVars, planVars, applyVars, handlerVars, storeVars, mergeVars, geoVars>>

\* the variables an ApplyPlan call leaves alone
outsideApply == <<fanVars, retryVars, resolveVars, assignVars, routeVars, truckVars, planVars, handlerVars, storeVars, mergeVars, geoVars, sharedVars>>

vars == <<fanVars, retryVars, resolveVars, assignVars, routeVars, truckVars, planVars, applyVars, handlerVars, storeVars, mergeVars, geoVars, sharedVars>>

(***************************************************************************)
(* Helpers.                                                                *)
(***************************************************************************)
SeqToSet(s) == {s[i] : i \in 1..Len(s)}

\* The distance the provider reports for origin o and target t.
ProviderDistance(o, t) == [DistanceMeters |-> 100 * o + t, DurationSeconds |-> 10 * o + t]

\* hubAndDests := append([]string{req.Hub}, destinations...)
hubAndDests == {Hub} \cup destinations

\* targets of one origin: every element of hubAndDests other than the origin
Targets(orig) == hubAndDests \ {orig}

\* a buffer read from its newest element
ChanSendFront(ch, r) == <<r>> \o ch

\* resultsCh <- r: a buffered channel keeps the order of the sends
ChanSend(ch, r) == Append(ch, r)

\* The outcomes of one resolver call (mp.GetDistances(ctx, orig, targets), or
\* the loop of provider.GetDistance calls): a map covering every target, a
\* map that lacks the hub, an error of its own, or (only for a provider that
\* observes ctx, once the context is done) the context's error.
AllKinds == {"full", "partial", "fail", "canceled"}

\* A provider of which nothing is known (any DistanceMatrixProvider).
AnyProvider(dests) == [w \in dests |-> AllKinds]

\* MockDistanceProvider: no GetDistances, ignores ctx, and a pair is in its
\* table or not: the table lacks the pairs of origin `missing` (none for Hub).
MockProvider(dests, missing) ==
    [w \in dests |-> IF w = missing THEN {"fail"} ELSE {"full"}]

\* A provider without GetDistances: the worker calls GetDistance for every
\* target, so that its map covers them all unless a call fails.
LoopProvider(dests) == [w \in dests |-> {"full", "fail", "canceled"}]

ResolverOutcomes(w) ==
    {k \in providerKinds[w] : k = "canceled" => ctxDone # "live"}

ResultsOf(orig, kind) ==
    LET cov == IF kind = "full" THEN Targets(orig)
               ELSE IF kind = "partial" THEN Targets(orig) \ {Hub}
               ELSE {}
    IN [t \in cov |-> ProviderDistance(orig, t)]

\* pairwiseResult{origin, results, err}
PairwiseResult(orig, kind) ==
    [origin  |-> orig,
     results |-> ResultsOf(orig, kind),
     err     |-> IF kind \in {"fail", "canceled"} THEN kind ELSE "nil"]

NoMap == [k \in {} |-> 0]

\* What o.do returns: a response with a status below 400, an
\* *httpStatusError, an error of the network, or the error of a request whose
\* context is done (a *url.Error around ctx.Err()).
Status(c) == [kind |-> "status", code |-> c]
NetErr == [kind |-> "net", code |-> 0]
CtxErr == [kind |-> "ctx", code |-> 0]
NoErr == [kind |-> "nil", code |-> 0]

\* the return values while PlanDeliveries runs
NotReturned == [err |-> "unset", hasPlans |-> FALSE, plansFrom |-> NoMap]

\* return nil, err
ReturnErr(e) == [err |-> e, hasPlans |-> FALSE, plansFrom |-> NoMap]

\* return plans, nil: the plans are computed from the pairwise map m, which
\* stands for them here
ReturnPlans(m) == [err |-> "nil", hasPlans |-> TRUE, plansFrom |-> m]

\* the entries hub -> d written before the fan-out (lines 98-101)
HubEntries(dests) == [k \in {<<Hub, d>> : d \in dests} |-> ProviderDistance(Hub, k[2])]

\* a worker holds a slot from its send on sem (line 124) to its deferred
\* receive (line 126)
HoldsSlot(w) == pc[w] \in {"resolving", "cancelling", "releasing"}

SlotHolders == {w \in destinations : HoldsSlot(w)}

\* PlanDeliveries has returned
Returned == pcMain = "done"

\* the origins whose resolver call ended in an error
FailedOrigins == {w \in destinations : resolved[w] \in {"fail", "canceled"}}

(***************************************************************************)
(* Initial state of the fan-out: PlanDeliveries at line 107.               *)
(***************************************************************************)
FanInit(n, stored, provider, server, traced) ==
    /\ destinations = 1..n
    /\ padded = stored
    /\ providerKinds = provider
    /\ upstream = server
    /\ trace = traced
    /\ attempt = [w \in 1..n |-> 0]
    /\ backoff = [w \in 1..n |-> 0]
    /\ lastErr = [w \in 1..n |-> NoErr]
    /\ hist = [w \in 1..n |-> <<>>]
    /\ waits = [w \in 1..n |-> <<>>]
    /\ sent = [w \in 1..n |-> 0]
    /\ pcMain = "dispatch"
    /\ pc = [w \in 1..n |-> "unborn"]
    /\ semLen = 0
    /\ wg = 0
    /\ resultsCh = <<>>
    /\ closed = FALSE
    /\ ctxDone = "live"
    /\ resolved = [w \in 1..n |-> "none"]
    /\ pairwiseDist = HubEntries(1..n)
    /\ pairwiseErr = "nil"
    /\ ret = NotReturned

(***************************************************************************)
(* The PlanDeliveries goroutine.                                           *)
(***************************************************************************)
\* lines 114-152: wg.Add(1); go func(orig) {...}(origin), one origin per step
Dispatch ==
    /\ pcMain = "dispatch"
    /\ \E w \in destinations :
         /\ pc[w] = "unborn"
         /\ \A v \in destinations : v < w => pc[v] # "unborn"
         /\ pc' = [pc EXCEPT ![w] = "queued"]
         /\ wg' = wg + 1
         /\ pcMain' = IF \A v \in destinations \ {w} : pc[v] # "unborn"
                      THEN "wait" ELSE "dispatch"
    /\ UNCHANGED <<libVars, destinations, padded, providerKinds, semLen, resultsCh, closed, ctxDone,
                   resolved, pairwiseDist, pairwiseErr, ret>>
    /\ UNCHANGED retryVars

\* a wait that does not look at the counter
WaitReturnsAtOnce == TRUE

\* wg.Wait() returns when the counter is zero
WaitReturns == wg = 0

\* line 154
Wait ==
    /\ pcMain = "wait"
    /\ WaitReturns
    /\ pcMain' = "close"
    /\ UNCHANGED <<libVars, destinations, padded, providerKinds, pc, semLen, wg, resultsCh, closed, ctxDone,
                   resolved, pairwiseDist, pairwiseErr, ret>>
    /\ UNCHANGED retryVars

\* line 155
Close ==
    /\ pcMain = "close"
    /\ closed' = TRUE
    /\ pcMain' = "merge"
    /\ UNCHANGED <<libVars, destinations, padded, providerKinds, pc, semLen, wg, resultsCh, ctxDone,
                   resolved, pairwiseDist, pairwiseErr, ret>>
    /\ UNCHANGED retryVars

\* lines 165-173 with the loop over `destinations` in place of hubAndDests:
\* the entry back to the hub is not taken over
MergedEntriesNoHub(res) ==
    [k \in {<<res.origin, t>> : t \in Targets(res.origin) \ {Hub}} |-> res.results[k[2]]]

\* the entries of one successful result, lines 165-173
MergedEntries(res) ==
    [k \in {<<res.origin, t>> : t \in Targets(res.origin)} |-> res.results[k[2]]]

\* the map after merging res into m
MergeInto(m, res) ==
    LET new == MergedEntries(res)
    IN [k \in DOMAIN m \cup DOMAIN new |-> IF k \in DOMAIN new THEN new[k] ELSE m[k]]

\* line 108: defer cancel() at the return, the context being live until
\* then or cancelled before by a worker or by the caller
DeferredCancel(c) == IF c = "live" THEN "returned" ELSE c

\* lines 158-174: one iteration of `for res := range resultsCh`
MergeOne ==
    /\ pcMain = "merge"
    /\ resultsCh # <<>>
    /\ LET res == Head(resultsCh) IN
         /\ resultsCh' = Tail(resultsCh)
         /\ IF res.err # "nil"
            THEN /\ pairwiseErr' = IF pairwiseErr = "nil" THEN res.err ELSE pairwiseErr
                 /\ UNCHANGED <<pairwiseDist, pcMain, ret>>
            ELSE IF Targets(res.origin) \subseteq DOMAIN res.results
            THEN /\ pairwiseDist' = MergeInto(pairwiseDist, res)
                 /\ UNCHANGED <<pairwiseErr, pcMain, ret>>
            ELSE \* line 169: the first target looked up, the hub, is missing
                 /\ ret' = ReturnErr("missing")
                 /\ pcMain' = "done"
                 /\ UNCHANGED <<pairwiseDist, pairwiseErr>>
         /\ ctxDone' = IF res.err = "nil" /\ ~(Targets(res.origin) \subseteq DOMAIN res.results)
                       THEN DeferredCancel(ctxDone) ELSE ctxDone
    /\ UNCHANGED <<libVars, destinations, padded, providerKinds, pc, semLen, wg, closed, resolved>>
    /\ UNCHANGED retryVars

\* a return that forgets the error read from the channel
ReturnIgnoringErr == ReturnPlans(pairwiseDist)

\* what lines 175-190 return once the channel is drained: the first error
\* of the fan-out, or the error of NearestNeighborRoute, which finds no
\* distance for a destination stored with surrounding whitespace (the map
\* has it under its trimmed name), or the plans
ReturnAfterMerge ==
    IF pairwiseErr # "nil"
    THEN ReturnErr(pairwiseErr)
    ELSE IF padded
    THEN ReturnErr("plan nearest neighbor route")
    ELSE ReturnPlans(pairwiseDist)

\* lines 175-190: the range loop ends (channel closed and empty), and the
\* deferred cancel() of line 108 runs
Return ==
    /\ pcMain = "merge"
    /\ closed
    /\ resultsCh = <<>>
    /\ ret' = ReturnAfterMerge
    /\ pcMain' = "done"
    /\ ctxDone' = DeferredCancel(ctxDone)
    /\ UNCHANGED <<libVars, destinations, padded, providerKinds, pc, semLen, wg, resultsCh, closed,
                   resolved, pairwiseDist, pairwiseErr>>
    /\ UNCHANGED retryVars

(***************************************************************************)
(* One origin worker (lines 123-151).                                      *)
(***************************************************************************)
\* a semaphore that admits one sender too many
SemHasRoomOffByOne == semLen <= SemCap

\* sem <- struct{}{} proceeds when the channel has room
SemHasRoom == semLen < SemCap

\* line 124
Acquire(w) ==
    /\ pc[w] = "queued"
    /\ SemHasRoom
    /\ semLen' = semLen + 1
    /\ pc' = [pc EXCEPT ![w] = "resolving"]
    /\ UNCHANGED <<libVars, destinations, padded, providerKinds, pcMain, wg, resultsCh, closed, ctxDone,
                   resolved, pairwiseDist, pairwiseErr, ret>>
    /\ UNCHANGED retryVars

\* a result channel with room for all workers but one
ResultsCapShort == Cardinality(destinations) - 1

\* line 111: make(chan pairwiseResult, len(destinations))
ResultsCap == Cardinality(destinations)

\* the position after the send: a failed worker goes on to cancel()
AfterSend(kind) == IF kind \in {"fail", "canceled"} THEN "cancelling" ELSE "releasing"

\* lines 131-150: the resolver call of worker w has returned `kind`; the
\* worker sends its pairwiseResult (the buffer has room for every worker)
WorkerReturns(w, kind) ==
    /\ Len(resultsCh) < ResultsCap
    /\ resultsCh' = ChanSend(resultsCh, PairwiseResult(w, kind))
    /\ resolved' = [resolved EXCEPT ![w] = kind]
    /\ pc' = [pc EXCEPT ![w] = AfterSend(kind)]

\* lines 128-150: the resolver call returns and its result is sent
Resolve(w) ==
    /\ pc[w] = "resolving"
    /\ \E kind \in ResolverOutcomes(w) : WorkerReturns(w, kind)
    /\ UNCHANGED <<libVars, destinations, padded, providerKinds, pcMain, semLen, wg, closed, ctxDone,
                   pairwiseDist, pairwiseErr, ret>>
    /\ UNCHANGED retryVars

\* lines 134/143: cancel()
Cancel(w) ==
    /\ pc[w] = "cancelling"
    /\ ctxDone' = IF ctxDone = "live" THEN "worker" ELSE ctxDone
    /\ pc' = [pc EXCEPT ![w] = "releasing"]
    /\ UNCHANGED <<libVars, destinations, padded, providerKinds, pcMain, semLen, wg, resultsCh, closed,
                   resolved, pairwiseDist, pairwiseErr, ret>>
    /\ UNCHANGED retryVars

\* line 126: defer func() { <-sem }()
Release(w) ==
    /\ pc[w] = "releasing"
    /\ semLen' = semLen - 1
    /\ pc' = [pc EXCEPT ![w] = "finishing"]
    /\ UNCHANGED <<libVars, destinations, padded, providerKinds, pcMain, wg, resultsCh, closed, ctxDone,
                   resolved, pairwiseDist, pairwiseErr, ret>>
    /\ UNCHANGED retryVars

\* line 125: defer wg.Done()
WgDone(w) ==
    /\ pc[w] = "finishing"
    /\ wg' = wg - 1
    /\ pc' = [pc EXCEPT ![w] = "done"]
    /\ UNCHANGED <<libVars, destinations, padded, providerKinds, pcMain, semLen, resultsCh, closed, ctxDone,
                   resolved, pairwiseDist, pairwiseErr, ret>>
    /\ UNCHANGED retryVars

\* the caller's context (the HTTP request's) is cancelled
ParentCancel ==
    /\ ctxDone = "live"
    /\ pcMain # "done"
    /\ ctxDone' = "caller"
    /\ UNCHANGED <<libVars, destinations, padded, providerKinds, pcMain, pc, semLen, wg, resultsCh, closed,
                   resolved, pairwiseDist, pairwiseErr, ret>>
    /\ UNCHANGED retryVars

FanNext ==
    \/ Dispatch
    \/ Wait
    \/ Close
    \/ MergeOne
    \/ Return
    \/ \E w \in destinations : Acquire(w)
    \/ \E w \in destinations : Resolve(w)
    \/ \E w \in destinations : Cancel(w)
    \/ \E w \in destinations : Release(w)
    \/ \E w \in destinations : WgDone(w)

(***************************************************************************)
(* ORSDistanceProvider.doWithRetry (part_008 lines 58-113), called by the   *)
(* resolver call of origin worker w under the fan-out's shared context.    *)
(* The worker's position is "attempt" at the top of the loop (line 67),    *)
(* "do" before o.do(req) (line 77), "inflight" while the request is out,   *)
(* and "backoff" in the select of lines 101-107.                           *)
(***************************************************************************)
\* every status the server is given in the single-call runs
AllStatuses == {200, 400, 401, 403, 404, 429, 500, 501, 502, 503, 504}

AnyServer == {Status(c) : c \in AllStatuses} \cup {NetErr}

\* a server that answers 200, 404 or 503
SmallServer == {Status(200), Status(404), Status(503)}

\* line 45: o.do turns a status of 400 or above into an *httpStatusError
IsHttpError(r) == r.kind = "status" /\ r.code >= 400

\* a classification that retries every 5xx
IsRetryableAny5xx(e) ==
    \/ e.kind = "status" /\ (e.code = 429 \/ e.code >= 500)
    \/ e.kind \in {"net", "ctx"}

\* lines 83-95: retry on 429, 500, 502, 503, 504 and on a net.Error (which
\* every error of http.Client.Do, a *url.Error, is)
IsRetryable(e) ==
    \/ e.kind = "status" /\ e.code \in {429, 500, 502, 503, 504}
    \/ e.kind \in {"net", "ctx"}

\* a budget of one attempt more
BudgetSpentOneLate(a) == a = MaxAttempts + 1

\* line 97: attempt == maxAttepts
BudgetSpent(a) == a = MaxAttempts

\* the kind of pairwise result a returned error makes
ErrKind(e) == IF e.kind = "ctx" THEN "canceled" ELSE "fail"

\* lines 62-65: the resolver call reaches doWithRetry
CallDoWithRetry(w) ==
    /\ pc[w] = "resolving"
    /\ pc' = [pc EXCEPT ![w] = "attempt"]
    /\ attempt' = [attempt EXCEPT ![w] = 1]
    /\ backoff' = [backoff EXCEPT ![w] = InitialBackoffMs]
    /\ lastErr' = [lastErr EXCEPT ![w] = NoErr]
    /\ UNCHANGED <<libVars, destinations, padded, providerKinds, pcMain, semLen, wg, resultsCh,
                   closed, ctxDone, resolved, pairwiseDist, pairwiseErr, ret>>
    /\ UNCHANGED <<upstream, trace, hist, waits, sent>>

\* a context check that never sees the cancellation
SeesLiveContext == TRUE

\* ctx.Err() == nil
ContextLive == ctxDone = "live"

\* doWithRetry returns to the resolver call of worker w, which returns `kind`
\* to the worker; the locals attempt and backoff are gone
RetryReturns(w, kind) ==
    /\ WorkerReturns(w, kind)
    /\ attempt' = [attempt EXCEPT ![w] = 0]
    /\ backoff' = [backoff EXCEPT ![w] = 0]

\* doWithRetry goes on, worker w now at position p
RetryGoesOn(w, p) ==
    /\ pc' = [pc EXCEPT ![w] = p]
    /\ UNCHANGED <<resultsCh, resolved, attempt, backoff>>

\* the history of worker w's call grows by what o.do returned
Recorded(w, r) == hist' = IF trace THEN [hist EXCEPT ![w] = Append(@, r)] ELSE hist

\* lines 68-75: the context check at the top of every attempt
RetryCheck(w) ==
    /\ pc[w] = "attempt"
    /\ IF ContextLive
       THEN RetryGoesOn(w, "do")
       ELSE RetryReturns(w, "canceled")
    /\ UNCHANGED <<libVars, destinations, padded, providerKinds, pcMain, semLen, wg,
                   closed, ctxDone, pairwiseDist, pairwiseErr, ret>>
    /\ UNCHANGED <<upstream, trace, lastErr, hist, waits, sent>>

\* lines 81-99 for an error e of o.do: keep it in lastErr, classify it, and
\* return it or go on to the backoff wait
AfterError(w, e) ==
    /\ lastErr' = [lastErr EXCEPT ![w] = e]
    /\ IF ~IsRetryable(e) \/ BudgetSpent(attempt[w])
       THEN RetryReturns(w, ErrKind(e))
       ELSE RetryGoesOn(w, "backoff")

\* line 77, o.session.Do: the transport looks at the request's context
\* before it sends anything; a request whose context is done is not sent
\* and Do returns the context's error
RetryDo(w) ==
    /\ pc[w] = "do"
    /\ IF ContextLive
       THEN /\ sent' = IF trace THEN [sent EXCEPT ![w] = @ + 1] ELSE sent
            /\ RetryGoesOn(w, "inflight")
            /\ UNCHANGED <<lastErr, hist>>
       ELSE /\ Recorded(w, CtxErr)
            /\ AfterError(w, CtxErr)
            /\ UNCHANGED sent
    /\ UNCHANGED <<libVars, destinations, padded, providerKinds, pcMain, semLen, wg,
                   closed, ctxDone, pairwiseDist, pairwiseErr, ret>>
    /\ UNCHANGED <<upstream, trace, waits>>

\* what a request that is out can come back with
Responses == upstream \cup (IF ContextLive THEN {} ELSE {CtxErr})

\* lines 77-99: o.do returns
RetryResponse(w) ==
    /\ pc[w] = "inflight"
    /\ \E r \in Responses :
         /\ Recorded(w, r)
         /\ IF r.kind = "status" /\ ~IsHttpError(r)
            THEN /\ RetryReturns(w, "full")
                 /\ UNCHANGED lastErr
            ELSE AfterError(w, r)
    /\ UNCHANGED <<libVars, destinations, padded, providerKinds, pcMain, semLen, wg,
                   closed, ctxDone, pairwiseDist, pairwiseErr, ret>>
    /\ UNCHANGED <<upstream, trace, waits, sent>>

\* a backoff that grows by the initial backoff
NextBackoffLinear(b) == b + InitialBackoffMs

\* line 109: backoff *= 2
NextBackoff(b) == b * 2

\* lines 101-109: the timer fires; the backoff doubles and the loop goes on
BackoffTimer(w) ==
    /\ pc[w] = "backoff"
    /\ waits' = IF trace THEN [waits EXCEPT ![w] = Append(@, backoff[w])] ELSE waits
    /\ backoff' = [backoff EXCEPT ![w] = NextBackoff(@)]
    /\ attempt' = [attempt EXCEPT ![w] = @ + 1]
    /\ pc' = [pc EXCEPT ![w] = "attempt"]
    /\ UNCHANGED <<libVars, destinations, padded, providerKinds, pcMain, semLen, wg, resultsCh,
                   closed, ctxDone, resolved, pairwiseDist, pairwiseErr, ret>>
    /\ UNCHANGED <<upstream, trace, lastErr, hist, sent>>

\* lines 103-105: the select takes <-ctx.Done() and returns ctx.Err()
BackoffCancelled(w) ==
    /\ pc[w] = "backoff"
    /\ ~ContextLive
    /\ RetryReturns(w, "canceled")
    /\ UNCHANGED <<libVars, destinations, padded, providerKinds, pcMain, semLen, wg,
                   closed, ctxDone, pairwiseDist, pairwiseErr, ret>>
    /\ UNCHANGED <<upstream, trace, lastErr, hist, waits, sent>>

\* the fan-out with every resolver call one doWithRetry call
RetryNext ==
    \/ Dispatch
    \/ Wait
    \/ Close
    \/ MergeOne
    \/ Return
    \/ \E w \in destinations : Acquire(w)
    \/ \E w \in destinations : CallDoWithRetry(w)
    \/ \E w \in destinations : RetryCheck(w)
    \/ \E w \in destinations : RetryDo(w)
    \/ \E w \in destinations : RetryResponse(w)
    \/ \E w \in destinations : BackoffTimer(w)
    \/ \E w \in destinations : BackoffCancelled(w)
    \/ \E w \in destinations : Cancel(w)
    \/ \E w \in destinations : Release(w)
    \/ \E w \in destinations : WgDone(w)

(***************************************************************************)
(* Strings.  A Go string is a sequence of one-character strings, so that   *)
(* normalisation and trimming are computed, character by character.        *)
(***************************************************************************)
IsSpace(c) == c = " "

\* strings.Fields(s): the maximal runs of non-space characters of s
RECURSIVE FieldsFrom(_, _, _)
FieldsFrom(s, cur, acc) ==
    IF s = <<>> THEN (IF cur = <<>> THEN acc ELSE Append(acc, cur))
    ELSE IF IsSpace(Head(s))
         THEN FieldsFrom(Tail(s), <<>>, IF cur = <<>> THEN acc ELSE Append(acc, cur))
         ELSE FieldsFrom(Tail(s), Append(cur, Head(s)), acc)

Fields(s) == FieldsFrom(s, <<>>, <<>>)

\* strings.Join(elems, sep)
RECURSIVE Join(_, _)
Join(elems, sep) ==
    IF elems = <<>> THEN <<>>
    ELSE IF Len(elems) = 1 THEN elems[1]
    ELSE elems[1] \o sep \o Join(Tail(elems), sep)

\* func (o *ORSDistanceProvider) normalize(s string) string
normalize(s) == Join(Fields(s), <<" ">>)

RECURSIVE TrimLeft(_)
TrimLeft(s) == IF s # <<>> /\ IsSpace(Head(s)) THEN TrimLeft(Tail(s)) ELSE s

RECURSIVE TrimRight(_)
TrimRight(s) ==
    IF s # <<>> /\ IsSpace(s[Len(s)]) THEN TrimRight(SubSeq(s, 1, Len(s) - 1)) ELSE s

\* strings.TrimSpace(s)
TrimSpace(s) == TrimRight(TrimLeft(s))

\* the `seen` loops: the first occurrence of every element, in order
RECURSIVE Dedupe(_, _)
Dedupe(s, seen) ==
    IF s = <<>> THEN <<>>
    ELSE IF Head(s) \in seen THEN Dedupe(Tail(s), seen)
    ELSE <<Head(s)>> \o Dedupe(Tail(s), seen \cup {Head(s)})

\* the elements of s outside the set drop, in order
RECURSIVE Without(_, _)
Without(s, drop) ==
    IF s = <<>> THEN <<>>
    ELSE IF Head(s) \in drop THEN Without(Tail(s), drop)
    ELSE <<Head(s)>> \o Without(Tail(s), drop)

\* The addresses a request can name: empty, blank, two one-word addresses,
\* and one two-word address in normal form and with a doubled space.
StrEmpty == <<>>
StrBlank == <<" ">>
StrA == <<"a">>
StrB == <<"b">>
StrAB == <<"a", " ", "b">>
StrAxB == <<"a", " ", " ", "b">>

RawStrings == {StrEmpty, StrBlank, StrA, StrB, StrAB, StrAxB}

\* the addresses in normal form
NormStrings == {normalize(s) : s \in RawStrings} \ {StrEmpty}

\* longest destination list of a request
MaxDestList == 2

DestLists(n) == UNION {[1..m -> RawStrings] : m \in 0..n}

(***************************************************************************)
(* The upstream services.                                                  *)
(***************************************************************************)
\* the place of an address, standing for its longitude and latitude
Place(a) == IF a = StrA THEN 1 ELSE IF a = StrB THEN 2 ELSE 3

\* /geocode/search for a normalised address: domain.Coordinates{Lon, Lat}
Geocoder(a) == [Lon |-> 0 - Place(a), Lat |-> Place(a)]

\* func (c Coordinates) CoordsToList() []float64
CoordsToList(c) == <<c.Lon, c.Lat>>

\* The metrics the matrix service reports between two locations, in tenths
\* of a metre and of a second, at a given epoch of its road data (0: when
\* the cached values were fetched, 1: now).
DistanceMetric(from, to, epoch) == 1000 * from[2] + 100 * to[2] + 10 * epoch + 5

DurationMetric(from, to, epoch) == 100 * from[2] + 10 * to[2] + 4 - 2 * epoch

\* math.Round on a non-negative value given in tenths
Round(tenths) == (tenths + 5) \div 10

\* ports.DistanceResult{DistanceMeters: int(math.Round(meters)), ...}
DistanceResult(meters, seconds) ==
    [DistanceMeters |-> Round(meters), DurationSeconds |-> Round(seconds)]

\* the value an earlier call cached for a pair of normalised addresses
CachedResult(o, d) ==
    LET from == CoordsToList(Geocoder(o))
        to == CoordsToList(Geocoder(d))
    IN DistanceResult(DistanceMetric(from, to, 0), DurationMetric(from, to, 0))

\* a JSON null in a row of the matrix response (a nil *float64)
Null == -1

\* the rows of a well-formed answer: one value per destination
DistanceRow(locations) ==
    [i \in 1..(Len(locations) - 1) |-> DistanceMetric(locations[1], locations[i + 1], 1)]

DurationRow(locations) ==
    [i \in 1..(Len(locations) - 1) |-> DurationMetric(locations[1], locations[i + 1], 1)]

\* The bodies the matrix service can answer with: the well-formed one, one
\* without rows, one whose row is one value short, one with a null value.
MatrixBodies(locations) ==
    LET meters == DistanceRow(locations)
        seconds == DurationRow(locations)
    IN {[Distances |-> <<meters>>, Durations |-> <<seconds>>],
        [Distances |-> <<>>, Durations |-> <<>>],
        [Distances |-> <<SubSeq(meters, 1, Len(meters) - 1)>>, Durations |-> <<seconds>>],
        [Distances |-> <<meters>>, Durations |-> <<[seconds EXCEPT ![1] = Null]>>]}

(***************************************************************************)
(* The caches (sql_distance_cache.go, part_004).                           *)
(***************************************************************************)
\* b laid over a: the entries of b, and those of a under other keys
Overlay(a, b) ==
    [k \in DOMAIN a \cup DOMAIN b |-> IF k \in DOMAIN b THEN b[k] ELSE a[k]]

\* the `uniq` of both GetMany: trimmed, non-empty, first occurrences
UniqueKeys(keys) ==
    Dedupe(Without([i \in 1..Len(keys) |-> TrimSpace(keys[i])], {StrEmpty}), {})

\* SQLDistanceCache.GetMany: the rows WHERE origin = $1 AND destination = ANY($2)
DistanceGetMany(cache, origin, dests) ==
    LET hit == {d \in SeqToSet(UniqueKeys(dests)) : <<origin, d>> \in DOMAIN cache}
    IN [d \in hit |-> cache[<<origin, d>>]]

\* SQLDistanceCache.PutMany with the two key columns exchanged
DistancePutManyReversed(cache, origin, results) ==
    Overlay(cache, [k \in {<<d, origin>> : d \in DOMAIN results} |-> results[k[1]]])

\* SQLDistanceCache.PutMany, committed: INSERT ... ON CONFLICT DO UPDATE
DistancePutMany(cache, origin, results) ==
    Overlay(cache, [k \in {<<origin, d>> : d \in DOMAIN results} |-> results[k[2]]])

\* SQLGeocodeCache.GetMany: the rows WHERE address = ANY($1)
GeocodeGetMany(cache, addresses) ==
    [a \in SeqToSet(UniqueKeys(addresses)) \cap DOMAIN cache |-> cache[a]]

\* SQLGeocodeCache.PutMany, committed
GeocodePutMany(cache, results) == Overlay(cache, results)

(***************************************************************************)
(* ORSDistanceProvider.GetDistances.                                       *)
(***************************************************************************)
\* normOrigin := o.normalize(origin)
normOrigin == normalize(gOrigin)

\* lines 153-160: the normalised destinations that are not blank
normDestinations ==
    Without([i \in 1..Len(gDests) |-> normalize(gDests[i])], {StrEmpty})

\* lines 162-174: without the origin, first occurrences only
destList == Dedupe(Without(normDestinations, {normOrigin}), {})

\* lines 190-195, with every destination counted as a miss
MissesIgnoringHits(list, hits) == list

\* lines 190-195 and 217-222: the keys a cache did not answer
MissesOf(list, hits) == Without(list, DOMAIN hits)

\* destinationMisses (lines 190-195)
destinationMisses == MissesOf(destList, destinationHits)

\* lines 201-205
needed == <<normOrigin>> \o destinationMisses

\* lines 217-222
geocodeMisses == Without(needed, DOMAIN geocodeHits)

\* the `unique` of geocodeMany (part_007 lines 37-45)
unique == Dedupe(geocodeMisses, {})

\* lines 242-248
coords == Overlay(geocodeHits, fresh)

\* lines 301-307, with the cached part forgotten
OutFetchedOnly(hits, got) == got

\* lines 301-307: out = destinationHits, then fetched
Out(hits, got) == Overlay(hits, got)

\* return values
GNotReturned == [err |-> "unset", hasMap |-> FALSE, out |-> NoMap]

GReturnErr(e) == [err |-> e, hasMap |-> FALSE, out |-> NoMap]

GReturnMap(m) == [err |-> "nil", hasMap |-> TRUE, out |-> m]

\* the call has returned
GReturned == gpc = "done"

\* no call was made before this one
NoPrevious == [ret |-> GNotReturned, faults |-> {}]

\* lines 184-186 and 211-213 with the error of the read dropped
ReadFailedSwallowed(e) == GReturnMap(NoMap)

\* lines 184-186 and 211-213: a failed cache read ends the call
ReadFailed(e) == GReturnErr(e)

\* lines 296-298 with the error of the write returned to the caller
AfterWritePropagates(failed, r) == IF failed THEN GReturnErr("distance cache write") ELSE r

\* lines 296-298: a failed write-back is logged, and r is returned
AfterWrite(failed, r) == r

\* fetchMatrixRow lines 82-118 without the test for null entries
MatrixOutNullAsZero(dests, body) ==
    IF Len(body.Distances) # 1 \/ Len(body.Durations) # 1
    THEN [err |-> "rows", out |-> NoMap]
    ELSE IF Len(body.Distances[1]) # Len(dests) \/ Len(body.Durations[1]) # Len(dests)
    THEN [err |-> "row length", out |-> NoMap]
    ELSE [err |-> "nil",
          out |-> [d \in SeqToSet(dests) |->
                     LET i == CHOOSE j \in 1..Len(dests) : dests[j] = d
                         zero(v) == IF v = Null THEN 0 ELSE v
                     IN DistanceResult(zero(body.Distances[1][i]),
                                       zero(body.Durations[1][i]))]]

\* fetchMatrixRow with the values of the first destination for every one
MatrixOutFirstColumn(dests, body) ==
    IF Len(body.Distances) # 1 \/ Len(body.Durations) # 1
    THEN [err |-> "rows", out |-> NoMap]
    ELSE IF Len(body.Distances[1]) # Len(dests) \/ Len(body.Durations[1]) # Len(dests)
    THEN [err |-> "row length", out |-> NoMap]
    ELSE IF \E i \in 1..Len(dests) :
                body.Distances[1][i] = Null \/ body.Durations[1][i] = Null
    THEN [err |-> "invalid metrics", out |-> NoMap]
    ELSE [err |-> "nil",
          out |-> [d \in SeqToSet(dests) |->
                     DistanceResult(body.Distances[1][1], body.Durations[1][1])]]

\* fetchMatrixRow lines 82-118 on a decoded body: the map, or an error
MatrixOut(dests, body) ==
    IF Len(body.Distances) # 1 \/ Len(body.Durations) # 1
    THEN [err |-> "rows", out |-> NoMap]
    ELSE LET rowDistances == body.Distances[1]
             rowDurations == body.Durations[1]
         IN IF Len(rowDistances) # Len(dests) \/ Len(rowDurations) # Len(dests)
            THEN [err |-> "row length", out |-> NoMap]
            ELSE IF \E i \in 1..Len(dests) :
                        rowDistances[i] = Null \/ rowDurations[i] = Null
            THEN [err |-> "invalid metrics", out |-> NoMap]
            ELSE [err |-> "nil",
                  out |-> [d \in SeqToSet(dests) |->
                             LET i == CHOOSE j \in 1..Len(dests) :
                                        /\ dests[j] = d
                                        /\ \A l \in (j + 1)..Len(dests) : dests[l] # d
                             IN DistanceResult(rowDistances[i], rowDurations[i])]]

\* no call in progress
ResolveIdle ==
    /\ gOrigin = StrEmpty
    /\ gDests = <<>>
    /\ gpc = "idle"
    /\ distanceCache = NoMap
    /\ geocodeCache = NoMap
    /\ cacheAtCall = [distance |-> NoMap, geocode |-> NoMap]
    /\ destinationHits = NoMap
    /\ geocodeHits = NoMap
    /\ fresh = NoMap
    /\ fetched = NoMap
    /\ gRet = GNotReturned
    /\ geocodeSent = 0
    /\ matrixSent = <<>>
    /\ cachePuts = [distance |-> 0, geocode |-> 0]
    /\ cacheFaults = {}
    /\ gCall = 1
    /\ gPrev = NoPrevious

\* A call GetDistances(o, ds) over caches filled by earlier calls: the
\* geocode cache knows the addresses `known`, the distance cache the
\* destinations `cached` from the normalised origin.
ResolveInit(o, ds, known, cached) ==
    /\ gOrigin = o
    /\ gDests = ds
    /\ gpc = "call"
    /\ distanceCache = [k \in {<<normalize(o), d>> : d \in cached} |-> CachedResult(k[1], k[2])]
    /\ geocodeCache = [a \in known |-> Geocoder(a)]
    /\ cacheAtCall = [distance |-> distanceCache, geocode |-> geocodeCache]
    /\ destinationHits = NoMap
    /\ geocodeHits = NoMap
    /\ fresh = NoMap
    /\ fetched = NoMap
    /\ gRet = GNotReturned
    /\ geocodeSent = 0
    /\ matrixSent = <<>>
    /\ cachePuts = [distance |-> 0, geocode |-> 0]
    /\ cacheFaults = {}
    /\ gCall = 1
    /\ gPrev = NoPrevious

\* the call returns r
GReturn(r) ==
    /\ gpc' = "done"
    /\ gRet' = r

\* lines 140-178: validation and normalisation of the arguments
GetDistancesEntry ==
    /\ gpc = "call"
    /\ IF gOrigin = StrEmpty THEN GReturn(GReturnErr("origin"))
       ELSE IF Len(gDests) = 0 THEN GReturn(GReturnMap(NoMap))
       ELSE IF normOrigin = StrEmpty THEN GReturn(GReturnErr("origin"))
       ELSE IF Len(destList) = 0 THEN GReturn(GReturnMap(NoMap))
       ELSE gpc' = "distanceCache" /\ UNCHANGED gRet
    /\ UNCHANGED <<gOrigin, gDests, cacheAtCall, distanceCache, geocodeCache, destinationHits,
                   geocodeHits, fresh, fetched, geocodeSent, matrixSent, cachePuts>>
    /\ UNCHANGED cacheFaults
    /\ UNCHANGED <<gCall, gPrev>>
    /\ UNCHANGED outsideResolve

\* lines 180-199: the distance cache is read; every destination a hit: return
DistanceCacheGet ==
    /\ gpc = "distanceCache"
    /\ \/ /\ GReturn(ReadFailed("distance cache"))
          /\ cacheFaults' = cacheFaults \cup {"distance read"}
          /\ UNCHANGED destinationHits
       \/ LET hits == DistanceGetMany(distanceCache, normOrigin, destList)
          IN /\ destinationHits' = hits
             /\ UNCHANGED cacheFaults
             /\ IF Len(MissesOf(destList, hits)) = 0
                THEN GReturn(GReturnMap(hits))
                ELSE gpc' = "geocodeCache" /\ UNCHANGED gRet
    /\ UNCHANGED <<gOrigin, gDests, cacheAtCall, distanceCache, geocodeCache,
                   geocodeHits, fresh, fetched, geocodeSent, matrixSent, cachePuts>>
    /\ UNCHANGED <<gCall, gPrev>>
    /\ UNCHANGED outsideResolve

\* lines 201-222: the geocode cache is read for the origin and the misses
GeocodeCacheGet ==
    /\ gpc = "geocodeCache"
    /\ \/ /\ GReturn(ReadFailed("geocode cache"))
          /\ cacheFaults' = cacheFaults \cup {"geocode read"}
          /\ UNCHANGED geocodeHits
       \/ LET hits == GeocodeGetMany(geocodeCache, needed)
          IN /\ geocodeHits' = hits
             /\ UNCHANGED cacheFaults
             /\ gpc' = IF Len(Without(needed, DOMAIN hits)) > 0 THEN "geocode" ELSE "matrix"
             /\ UNCHANGED gRet
    /\ UNCHANGED <<gOrigin, gDests, cacheAtCall, distanceCache, geocodeCache, destinationHits,
                   fresh, fetched, geocodeSent, matrixSent, cachePuts>>
    /\ UNCHANGED <<gCall, gPrev>>
    /\ UNCHANGED outsideResolve

\* lines 224-234: geocodeMany for the addresses the cache did not know; it
\* answers every one of them, or fails after at least one request
GeocodeMany ==
    /\ gpc = "geocode"
    /\ \/ /\ fresh' = [a \in {normalize(x) : x \in SeqToSet(unique)} |-> Geocoder(a)]
          /\ geocodeSent' = geocodeSent + Len(unique)
          /\ gpc' = "geocodePut"
          /\ UNCHANGED gRet
       \/ /\ \E k \in 1..Len(unique) : geocodeSent' = geocodeSent + k
          /\ GReturn(GReturnErr("geocode"))
          /\ UNCHANGED fresh
    /\ UNCHANGED <<gOrigin, gDests, cacheAtCall, distanceCache, geocodeCache, destinationHits,
                   geocodeHits, fetched, matrixSent, cachePuts>>
    /\ UNCHANGED cacheFaults
    /\ UNCHANGED <<gCall, gPrev>>
    /\ UNCHANGED outsideResolve

\* lines 236-240: the fresh coordinates are written back, best effort
GeocodeCachePut ==
    /\ gpc = "geocodePut"
    /\ cachePuts' = [cachePuts EXCEPT !.geocode = @ + 1]
    /\ \/ geocodeCache' = GeocodePutMany(geocodeCache, fresh) /\ UNCHANGED cacheFaults
       \/ /\ UNCHANGED geocodeCache
          /\ cacheFaults' = cacheFaults \cup {"geocode write"}
    /\ gpc' = "matrix"
    /\ UNCHANGED <<gOrigin, gDests, cacheAtCall, distanceCache, destinationHits, geocodeHits,
                   fresh, fetched, gRet, geocodeSent, matrixSent>>
    /\ UNCHANGED <<gCall, gPrev>>
    /\ UNCHANGED outsideResolve

\* lines 242-293: the coordinates are looked up and one matrix row is
\* fetched for the misses (fetchMatrixRow, ors_matrix.go lines 29-119)
FetchMatrixRow ==
    /\ gpc = "matrix"
    /\ IF \E a \in SeqToSet(needed) : a \notin DOMAIN coords
       THEN /\ GReturn(GReturnErr("missing coordinate"))
            /\ UNCHANGED <<fetched, matrixSent>>
       ELSE LET locations == <<CoordsToList(coords[normOrigin])>> \o
                             [i \in 1..Len(destinationMisses) |->
                                 CoordsToList(coords[destinationMisses[i]])]
            IN /\ matrixSent' = Append(matrixSent, destinationMisses)
               /\ \/ /\ GReturn(GReturnErr("matrix request"))
                     /\ UNCHANGED fetched
                  \/ \E body \in MatrixBodies(locations) :
                        LET res == MatrixOut(destinationMisses, body)
                        IN IF res.err # "nil"
                           THEN GReturn(GReturnErr(res.err)) /\ UNCHANGED fetched
                           ELSE IF \E d \in SeqToSet(destinationMisses) :
                                      d \notin DOMAIN res.out
                           THEN GReturn(GReturnErr("not returned")) /\ UNCHANGED fetched
                           ELSE /\ fetched' = res.out
                                /\ gpc' = "distancePut"
                                /\ UNCHANGED gRet
    /\ UNCHANGED <<gOrigin, gDests, cacheAtCall, distanceCache, geocodeCache, destinationHits,
                   geocodeHits, fresh, geocodeSent, cachePuts>>
    /\ UNCHANGED cacheFaults
    /\ UNCHANGED <<gCall, gPrev>>
    /\ UNCHANGED outsideResolve

\* lines 295-309: the fetched row is written back, best effort, and the
\* hits and the fetched row are returned together
DistanceCachePut ==
    /\ gpc = "distancePut"
    /\ cachePuts' = [cachePuts EXCEPT !.distance = @ + 1]
    /\ \/ /\ distanceCache' = DistancePutMany(distanceCache, normOrigin, fetched)
          /\ UNCHANGED cacheFaults
          /\ GReturn(AfterWrite(FALSE, GReturnMap(Out(destinationHits, fetched))))
       \/ /\ UNCHANGED distanceCache
          /\ cacheFaults' = cacheFaults \cup {"distance write"}
          /\ GReturn(AfterWrite(TRUE, GReturnMap(Out(destinationHits, fetched))))
    /\ UNCHANGED <<gOrigin, gDests, cacheAtCall, geocodeCache, destinationHits, geocodeHits,
                   fresh, fetched, geocodeSent, matrixSent>>
    /\ UNCHANGED <<gCall, gPrev>>
    /\ UNCHANGED outsideResolve

\* The caller repeats a call that returned a map, with the same arguments,
\* over the caches as the first call left them.
GetDistancesAgain ==
    /\ gpc = "done"
    /\ gCall = 1
    /\ gRet.hasMap
    /\ gCall' = 2
    /\ gPrev' = [ret |-> gRet, faults |-> cacheFaults]
    /\ gpc' = "call"
    /\ cacheAtCall' = [distance |-> distanceCache, geocode |-> geocodeCache]
    /\ destinationHits' = NoMap
    /\ geocodeHits' = NoMap
    /\ fresh' = NoMap
    /\ fetched' = NoMap
    /\ gRet' = GNotReturned
    /\ geocodeSent' = 0
    /\ matrixSent' = <<>>
    /\ cachePuts' = [distance |-> 0, geocode |-> 0]
    /\ cacheFaults' = {}
    /\ UNCHANGED <<gOrigin, gDests, distanceCache, geocodeCache>>
    /\ UNCHANGED outsideResolve

ResolveNext ==
    \/ GetDistancesEntry
    \/ DistanceCacheGet
    \/ GeocodeCacheGet
    \/ GeocodeMany
    \/ GeocodeCachePut
    \/ FetchMatrixRow
    \/ DistanceCachePut

(***************************************************************************)
(* services.AssignPackagesByDistance (part_001) and Truck.Load              *)
(* (internal/domain/truck.go).  A destination is a number whose order is   *)
(* the order of the destination strings; a package is <<destination, j>>.  *)
(***************************************************************************)
\* most destinations, trucks and truck capacity of a request
MaxAssignDests == 4
MaxTrucks == 3
MaxCapacity == 4

\* the hub distances a destination can have (two, so that ties occur)
HubDistances == {10, 20}

\* pkgDest[d]: the packages grouped under destination d (part_002 lines
\* 38-48); destinations alternate between two packages and one
pkgDest(d) == [j \in 1..(1 + (d % 2)) |-> <<d, j>>]

\* domain.NewTruck(i+1, req.TruckCapacity, req.Hub)
NewTruck(id, capacity) == [TruckID |-> id, Capacity |-> capacity, Packages |-> <<>>]

\* Load with the capacity test passing one package too many
LoadOneOver(t, pkg) ==
    IF Len(t.Packages) > t.Capacity
    THEN [err |-> "full", truck |-> t]
    ELSE [err |-> "nil", truck |-> [t EXCEPT !.Packages = Append(@, pkg)]]

\* func (t *Truck) Load(pkg *Package) error
Load(t, pkg) ==
    IF Len(t.Packages) >= t.Capacity
    THEN [err |-> "full", truck |-> t]
    ELSE [err |-> "nil", truck |-> [t EXCEPT !.Packages = Append(@, pkg)]]

\* the comparison of line 27-43 with the distances left out
LessByNameOnly(a, b) == a < b

\* lines 27-43: the comparison function is negative
Less(a, b) ==
    \/ aDistances[a] < aDistances[b]
    \/ aDistances[a] = aDistances[b] /\ a < b

RECURSIVE InsertSorted(_, _)
InsertSorted(s, x) ==
    IF s = <<>> THEN <<x>>
    ELSE IF Less(x, Head(s)) THEN <<x>> \o s
    ELSE <<Head(s)>> \o InsertSorted(Tail(s), x)

\* slices.SortFunc(destinations, cmp)
RECURSIVE SortFunc(_)
SortFunc(s) == IF s = <<>> THEN <<>> ELSE InsertSorted(SortFunc(Tail(s)), Head(s))

nTrucks == Len(aTrucks)

nDests == Len(aDestinations)

\* the chunk size rounded down
ChunkSizeFloor(n, k) == n \div k

\* chunkSize := (nDests + nTrucks - 1) / nTrucks
ChunkSize(n, k) == (n + k - 1) \div k

chunkSize == ChunkSize(nDests, nTrucks)

\* lines 57-60 with the band one destination too long
BandEndOneMore(start, chunk, n) == IF start + chunk + 1 > n THEN n ELSE start + chunk + 1

\* lines 57-60: end := start + chunkSize, capped at nDests
BandEnd(start, chunk, n) == IF start + chunk > n THEN n ELSE start + chunk

\* return values
AssignOk == [kind |-> "nil", truck |-> 0]

AssignUnset == [kind |-> "unset", truck |-> 0]

\* errors.New("assign packages: truck list must not be empty")
ErrNoTrucks == [kind |-> "no trucks", truck |-> 0]

\* the error of line 67 without the id of the truck
ErrTruckUnnamed(id) == [kind |-> "load", truck |-> 0]

\* fmt.Errorf("assign packages: truck %d: %w", trucks[ti].TruckID, err)
ErrTruck(id) == [kind |-> "load", truck |-> id]

\* no call in progress
AssignIdle ==
    /\ aDestinations = <<>>
    /\ aDistances = <<>>
    /\ aTrucks = <<>>
    /\ apc = "idle"
    /\ ti = 0
    /\ di = 0
    /\ pi = 0
    /\ aErr = AssignUnset

\* The call of PlanDeliveries line 90: the keys of pkgDest in the order the
\* map iteration gave them, their hub distances, and k new trucks.
AssignInit(order, dist, k, capacity) ==
    /\ aDestinations = order
    /\ aDistances = dist
    /\ aTrucks = [i \in 1..k |-> NewTruck(i, capacity)]
    /\ apc = "call"
    /\ ti = 0
    /\ di = 0
    /\ pi = 0
    /\ aErr = AssignUnset

\* lines 22-49: the truck list is checked and the destinations are sorted
AssignEntry ==
    /\ apc = "call"
    /\ IF nTrucks = 0
       THEN /\ apc' = "done"
            /\ aErr' = ErrNoTrucks
            /\ UNCHANGED aDestinations
       ELSE /\ aDestinations' = SortFunc(aDestinations)
            /\ apc' = "band"
            /\ UNCHANGED aErr
    /\ UNCHANGED <<aDistances, aTrucks, ti, di, pi>>
    /\ UNCHANGED outsideAssign

\* lines 51-60 and 73: the head of the loop over the trucks
NextBand ==
    /\ apc = "band"
    /\ LET start == ti * chunkSize
           end == BandEnd(start, chunkSize, nDests)
       IN IF ti >= nTrucks \/ start >= nDests
          THEN /\ apc' = "done"
               /\ aErr' = AssignOk
               /\ UNCHANGED <<ti, di, pi>>
          ELSE IF start >= end
          THEN /\ ti' = ti + 1
               /\ UNCHANGED <<apc, aErr, di, pi>>
          ELSE /\ apc' = "load"
               /\ di' = start
               /\ pi' = 1
               /\ UNCHANGED <<ti, aErr>>
    /\ UNCHANGED <<aDestinations, aDistances, aTrucks>>
    /\ UNCHANGED outsideAssign

\* lines 64-70: one package of the band is loaded on truck ti
LoadPackage ==
    /\ apc = "load"
    /\ LET end == BandEnd(ti * chunkSize, chunkSize, nDests)
           d == aDestinations[di + 1]
           res == Load(aTrucks[ti + 1], pkgDest(d)[pi])
       IN IF res.err # "nil"
          THEN /\ apc' = "done"
               /\ aErr' = ErrTruck(aTrucks[ti + 1].TruckID)
               /\ UNCHANGED <<aTrucks, ti, di, pi>>
          ELSE /\ aTrucks' = [aTrucks EXCEPT ![ti + 1] = res.truck]
               /\ UNCHANGED aErr
               /\ IF pi < Len(pkgDest(d))
                  THEN pi' = pi + 1 /\ UNCHANGED <<apc, ti, di>>
                  ELSE IF di + 1 < end
                  THEN di' = di + 1 /\ pi' = 1 /\ UNCHANGED <<apc, ti>>
                  ELSE ti' = ti + 1 /\ apc' = "band" /\ UNCHANGED <<di, pi>>
    /\ UNCHANGED <<aDestinations, aDistances>>
    /\ UNCHANGED outsideAssign

AssignNext ==
    \/ AssignEntry
    \/ NextBand
    \/ LoadPackage

(***************************************************************************)
(* domain.Truck (internal/domain/truck.go): Load, LoadMultiple and Clear   *)
(* called in any sequence on one truck.                                    *)
(***************************************************************************)
\* most operations called on the truck
MaxOps == 4

\* most packages passed to one LoadMultiple
MaxBatch == 2

\* the packages that are loaded
TruckPkgs == {<<1, 1>>, <<2, 1>>}

\* the package lists passed to LoadMultiple
Batches == UNION {[1..n -> TruckPkgs] : n \in 0..MaxBatch}

\* func (t *Truck) LoadMultiple(pkgs []*Package) error
RECURSIVE LoadMultiple(_, _)
LoadMultiple(t, pkgs) ==
    IF pkgs = <<>> THEN [err |-> "nil", truck |-> t]
    ELSE LET res == Load(t, Head(pkgs))
         IN IF res.err # "nil" THEN res
            ELSE LoadMultiple(res.truck, Tail(pkgs))

\* func (t *Truck) Clear(): t.Packages = nil
Clear(t) == [t EXCEPT !.Packages = <<>>]

\* no truck in use
TruckIdle ==
    /\ tTruck = NewTruck(0, 0)
    /\ tOp = "idle"
    /\ tBefore = <<>>
    /\ tErr = "nil"
    /\ tOps = 0

\* a new truck
TruckInit(capacity) ==
    /\ tTruck = NewTruck(1, capacity)
    /\ tOp = "new"
    /\ tBefore = <<>>
    /\ tErr = "nil"
    /\ tOps = 0

\* the operation op was called and returned res
Called(op, res) ==
    /\ tOps' = tOps + 1
    /\ tOp' = op
    /\ tBefore' = tTruck.Packages
    /\ tTruck' = res.truck
    /\ tErr' = res.err
    /\ UNCHANGED outsideTruck

\* t.Load(pkg)
TruckLoad ==
    /\ tOp # "idle"
    /\ tOps < MaxOps
    /\ \E pkg \in TruckPkgs : Called("Load", Load(tTruck, pkg))

\* t.LoadMultiple(pkgs)
TruckLoadMultiple ==
    /\ tOp # "idle"
    /\ tOps < MaxOps
    /\ \E pkgs \in Batches : Called("LoadMultiple", LoadMultiple(tTruck, pkgs))

\* t.Clear()
TruckClear ==
    /\ tOp # "idle"
    /\ tOps < MaxOps
    /\ Called("Clear", [err |-> "nil", truck |-> Clear(tTruck)])

TruckNext ==
    \/ TruckLoad
    \/ TruckLoadMultiple
    \/ TruckClear

(***************************************************************************)
(* services.NearestNeighborRoute (internal/api/dto/package.go 204-314).    *)
(* Locations are strings; a key of the distance map is "from|to".          *)
(***************************************************************************)
\* most destinations a truck is given in the planner runs
MaxStops == 3

\* the code point of a character
CharCode(c) ==
    IF c = " " THEN 32 ELSE IF c = "A" THEN 65 ELSE IF c = "B" THEN 66
    ELSE IF c = "C" THEN 67 ELSE IF c = "H" THEN 72 ELSE IF c = "U" THEN 85
    ELSE IF c = "a" THEN 97
    ELSE IF c = "b" THEN 98 ELSE 124

\* a < b on Go strings: the order of the first differing byte, a proper
\* prefix being smaller
RECURSIVE StrLess(_, _)
StrLess(a, b) ==
    IF b = <<>> THEN FALSE
    ELSE IF a = <<>> THEN TRUE
    ELSE IF Head(a) # Head(b) THEN CharCode(Head(a)) < CharCode(Head(b))
    ELSE StrLess(Tail(a), Tail(b))

\* the start location of every truck (req.Hub), and the destination names
StrHub == <<"H", "U", "B">>

NameList == << <<"A">>, <<"A", "B">>, <<"B">>, <<"C">> >>

Locations == <<StrHub>> \o NameList

RouteNames == {NameList[i] : i \in 1..MaxStops}

\* position of a location in Locations
LocIdx(x) == CHOOSE i \in 1..Len(Locations) : Locations[i] = x

\* currentLocation+"|"+d
Key(from, to) == from \o <<"|">> \o to

\* req.DepartAt, in seconds
DepartAt == 1000

\* math.MaxInt64, as the largest integer of the model
MaxInt64 == 2147483647

\* the elements of a set of strings in ascending order
RECURSIVE Ascending(_)
Ascending(S) ==
    IF S = {} THEN <<>>
    ELSE LET m == CHOOSE x \in S : \A y \in S \ {x} : StrLess(x, y)
         IN <<m>> \o Ascending(S \ {m})

\* The packages of a truck that delivers to the destinations S, one package
\* each and then a second package for those in D: []*domain.Package with
\* PackageID and Destination.
PackagesFor(S, D) ==
    LET dests == Ascending(S) \o Ascending(D)
    IN [i \in 1..Len(dests) |-> [PackageID |-> i, Destination |-> dests[i]]]

\* The pairwise map for the given locations: the leg between x and y lasts
\* legs[{x, y}] seconds in both directions (1 second where legs does not
\* name it) and is 100*x + 10*y metres long from x to y; the keys in
\* `dropped` are absent.
DistanceMap(locs, legs, dropped) ==
    LET pairs == {p \in locs \X locs : p[1] # p[2]}
        keyed == {Key(p[1], p[2]) : p \in pairs} \ dropped
    IN [k \in keyed |->
          LET p == CHOOSE q \in pairs : Key(q[1], q[2]) = k
          IN [DistanceMeters |-> 100 * LocIdx(p[1]) + 10 * LocIdx(p[2]),
              DurationSeconds |-> IF {p[1], p[2]} \in DOMAIN legs
                                  THEN legs[{p[1], p[2]}] ELSE 1]]

\* the durations a leg can have (few, so that ties are common)
LegDurations == {1, 2}

\* the orders in which Go can range over a map with the keys S
Orders(S) ==
    {o \in [1..Cardinality(S) -> S] : \A i, j \in 1..Cardinality(S) : o[i] = o[j] => i = j}

\* lines 228-231 with only the first package of a destination kept
ByDestinationFirstOnly(pkgs) ==
    [d \in {pkgs[i].Destination : i \in 1..Len(pkgs)} |->
        <<pkgs[CHOOSE i \in 1..Len(pkgs) :
                  /\ pkgs[i].Destination = d
                  /\ \A j \in 1..(i - 1) : pkgs[j].Destination # d].PackageID>>]

\* lines 228-231: the package ids grouped by pkg.Destination, in list order
ByDestination(pkgs) ==
    [d \in {pkgs[i].Destination : i \in 1..Len(pkgs)} |->
        LET mine == SelectSeq(pkgs, LAMBDA p : p.Destination = d)
        IN [i \in 1..Len(mine) |-> mine[i].PackageID]]

\* the local `byDestination`
byDestination == ByDestination(rTruck.Packages)

\* line 264 without the tie-break: only a strictly shorter leg wins
BetterOnlyIfShorter(currentDuration, minDuration, d, best) ==
    currentDuration < minDuration \/ (currentDuration = minDuration /\ best = StrEmpty)

\* line 264: the condition under which d replaces bestDestination
Better(currentDuration, minDuration, d, best) ==
    \/ currentDuration < minDuration
    \/ currentDuration = minDuration /\ (best = StrEmpty \/ StrLess(d, best))

\* line 262 with the length of the leg in place of its duration
CostInMeters(r) == r.DistanceMeters

\* line 262: currentDuration, the quantity the selection minimises
Cost(r) == r.DurationSeconds

\* line 218 with the test never true
NoPackagesNever(pkgs) == FALSE

\* line 218: len(packages) == 0
NoPackages(pkgs) == Len(pkgs) = 0

\* line 289 with the truck left where it was
AdvanceStaysPut(best, from) == from

\* line 289: currentLocation = bestDestination
Advance(best, from) == best

\* a clock advanced by the meters of the leg
ClockAfterMeters(t, r) == t + r.DistanceMeters

\* line 273: currentTime.Add(time.Duration(bestResult.DurationSeconds) * time.Second)
ClockAfter(t, r) == t + r.DurationSeconds

\* line 294 with the leg taken in the other direction
ReturnKeyReversed(from, start) == Key(start, from)

\* line 294: the key of the return leg
ReturnKey(from, start) == Key(from, start)

\* lines 257-268: the selection loop over `destinations`, from `from`
RECURSIVE SelectFrom(_, _, _, _)
SelectFrom(ds, from, best, minDuration) ==
    IF ds = <<>> THEN best
    ELSE LET d == Head(ds)
             currentDuration == Cost(rDistances[Key(from, d)])
         IN IF Better(currentDuration, minDuration, d, best)
            THEN SelectFrom(Tail(ds), from, d, currentDuration)
            ELSE SelectFrom(Tail(ds), from, best, minDuration)

\* lines 251-255: the destinations whose key is absent, in range order
MissingFrom(ds, from) == SelectSeq(ds, LAMBDA d : Key(from, d) \notin DOMAIN rDistances)

\* lines 251-255: the position in range order at which the check stops
FirstMissing(ds, from) ==
    CHOOSE i \in 1..Len(ds) :
        /\ Key(from, ds[i]) \notin DOMAIN rDistances
        /\ \A j \in 1..(i - 1) : Key(from, ds[j]) \in DOMAIN rDistances

\* domain.RouteStop
RouteStop(d, at, ids) == [Destination |-> d, ArriveAt |-> at, PackageIDs |-> ids]

\* domain.RoutePlan
RoutePlan(id, at, ss, seconds, meters) ==
    [TruckID |-> id, DepartAt |-> at, Stops |-> ss,
     TotalDurationSeconds |-> seconds, TotalDistanceMeters |-> meters]

NoPlan == RoutePlan(0, 0, <<>>, 0, 0)

\* return values
RNotReturned == [err |-> "unset", to |-> StrEmpty, hasPlan |-> FALSE, plan |-> NoPlan]

RReturnErr(e, d) == [err |-> e, to |-> d, hasPlan |-> FALSE, plan |-> NoPlan]

RReturnPlan(p) == [err |-> "nil", to |-> StrEmpty, hasPlan |-> TRUE, plan |-> p]

\* no call in progress
RouteIdle ==
    /\ rTruck = [TruckID |-> 0, StartLocation |-> StrEmpty, Packages |-> <<>>]
    /\ rDistances = NoMap
    /\ rReturnToStart = FALSE
    /\ rpc = "idle"
    /\ remainingDestinations = {}
    /\ currentLocation = StrEmpty
    /\ currentTime = 0
    /\ stops = <<>>
    /\ totalDistanceMeters = 0
    /\ totalDurationSeconds = 0
    /\ picks = <<>>
    /\ rLookups = {}
    /\ rRet = RNotReturned

\* the call NearestNeighborRoute(ctx, truck, req.DepartAt, distances, back)
RouteInit(truck, distances, back) ==
    /\ rTruck = truck
    /\ rDistances = distances
    /\ rReturnToStart = back
    /\ rpc = "call"
    /\ remainingDestinations = {}
    /\ currentLocation = StrEmpty
    /\ currentTime = 0
    /\ stops = <<>>
    /\ totalDistanceMeters = 0
    /\ totalDurationSeconds = 0
    /\ picks = <<>>
    /\ rLookups = {}
    /\ rRet = RNotReturned

\* the call returns r
RReturn(r) ==
    /\ rpc' = "done"
    /\ rRet' = r

\* the call has returned
RReturned == rpc = "done"

\* lines 211-243: the checks, the grouping and the start of the route
RouteEntry ==
    /\ rpc = "call"
    /\ IF rTruck.StartLocation = StrEmpty
       THEN /\ RReturn(RReturnErr("start", StrEmpty))
            /\ UNCHANGED <<remainingDestinations, currentLocation, currentTime>>
       ELSE IF NoPackages(rTruck.Packages)
       THEN /\ RReturn(RReturnPlan(RoutePlan(rTruck.TruckID, DepartAt, <<>>, 0, 0)))
            /\ UNCHANGED <<remainingDestinations, currentLocation, currentTime>>
       ELSE /\ remainingDestinations' = DOMAIN byDestination
            /\ currentTime' = DepartAt
            /\ currentLocation' = rTruck.StartLocation
            /\ rpc' = "loop"
            /\ UNCHANGED rRet
    /\ UNCHANGED <<rTruck, rDistances, rReturnToStart, stops, totalDistanceMeters,
                   totalDurationSeconds, picks, rLookups>>
    /\ UNCHANGED outsideRoute

\* lines 245-290: one pass of the loop, the map being ranged over in any order
RouteStep ==
    /\ rpc = "loop"
    /\ remainingDestinations # {}
    /\ \E destinations_ \in Orders(remainingDestinations) :
         LET missing == MissingFrom(destinations_, currentLocation)
             best == SelectFrom(destinations_, currentLocation, StrEmpty, MaxInt64)
             bestResult == rDistances[Key(currentLocation, best)]
         IN IF Len(missing) > 0
            THEN /\ RReturn(RReturnErr("missing", missing[1]))
                 /\ rLookups' = rLookups \cup
                       {Key(currentLocation, destinations_[i]) :
                          i \in 1..FirstMissing(destinations_, currentLocation)}
                 /\ UNCHANGED <<remainingDestinations, currentLocation, currentTime, stops,
                                totalDistanceMeters, totalDurationSeconds, picks>>
            ELSE IF best = StrEmpty
            THEN /\ RReturn(RReturnErr("select", StrEmpty))
                 /\ rLookups' = rLookups \cup
                       {Key(currentLocation, d) : d \in remainingDestinations}
                 /\ UNCHANGED <<remainingDestinations, currentLocation, currentTime, stops,
                                totalDistanceMeters, totalDurationSeconds, picks>>
            ELSE /\ currentTime' = ClockAfter(currentTime, bestResult)
                 /\ totalDurationSeconds' = totalDurationSeconds + bestResult.DurationSeconds
                 /\ totalDistanceMeters' = totalDistanceMeters + bestResult.DistanceMeters
                 /\ stops' = Append(stops, RouteStop(best, currentTime', byDestination[best]))
                 /\ picks' = Append(picks, [from |-> currentLocation,
                                            among |-> remainingDestinations])
                 /\ remainingDestinations' = remainingDestinations \ {best}
                 /\ currentLocation' = Advance(best, currentLocation)
                 /\ rLookups' = rLookups \cup
                       {Key(currentLocation, d) : d \in remainingDestinations}
                 /\ UNCHANGED <<rpc, rRet>>
    /\ UNCHANGED <<rTruck, rDistances, rReturnToStart>>
    /\ UNCHANGED outsideRoute

\* lines 292-313: the optional return leg, and the plan
RouteFinish ==
    /\ rpc = "loop"
    /\ remainingDestinations = {}
    /\ LET key == ReturnKey(currentLocation, rTruck.StartLocation)
       IN IF rReturnToStart
          THEN /\ rLookups' = rLookups \cup {key}
               /\ IF key \notin DOMAIN rDistances
                  THEN /\ RReturn(RReturnErr("missing return", rTruck.StartLocation))
                       /\ UNCHANGED <<currentTime, totalDistanceMeters, totalDurationSeconds>>
                  ELSE /\ currentTime' = currentTime + rDistances[key].DurationSeconds
                       /\ totalDurationSeconds' =
                             totalDurationSeconds + rDistances[key].DurationSeconds
                       /\ totalDistanceMeters' =
                             totalDistanceMeters + rDistances[key].DistanceMeters
                       /\ RReturn(RReturnPlan(RoutePlan(rTruck.TruckID, DepartAt, stops,
                                     totalDurationSeconds', totalDistanceMeters')))
          ELSE /\ RReturn(RReturnPlan(RoutePlan(rTruck.TruckID, DepartAt, stops,
                                     totalDurationSeconds, totalDistanceMeters)))
               /\ UNCHANGED <<currentTime, totalDistanceMeters, totalDurationSeconds,
                              rLookups>>
    /\ UNCHANGED <<rTruck, rDistances, rReturnToStart, remainingDestinations,
                   currentLocation, stops, picks>>
    /\ UNCHANGED outsideRoute

RouteNext ==
    \/ RouteEntry
    \/ RouteStep
    \/ RouteFinish

\* the worked example of route_planner_test.go: hub HUB, one package each
\* for A, B and C, no return leg
ExampleTruck ==
    [TruckID |-> 1, StartLocation |-> StrHub,
     Packages |-> << [PackageID |-> 1, Destination |-> <<"A">>],
                     [PackageID |-> 2, Destination |-> <<"B">>],
                     [PackageID |-> 3, Destination |-> <<"C">>] >>]

Leg(meters, seconds) == [DistanceMeters |-> meters, DurationSeconds |-> seconds]

ExampleLegs ==
    [p \in {<<StrHub, <<"A">>>>, <<StrHub, <<"B">>>>, <<StrHub, <<"C">>>>,
            <<<<"A">>, <<"C">>>>, <<<<"A">>, <<"B">>>>, <<<<"B">>, <<"C">>>>} |->
        IF p = <<StrHub, <<"A">>>> THEN Leg(1000, 300)
        ELSE IF p = <<StrHub, <<"B">>>> THEN Leg(2000, 600)
        ELSE IF p = <<StrHub, <<"C">>>> THEN Leg(1500, 450)
        ELSE IF p = <<<<"A">>, <<"C">>>> THEN Leg(700, 210)
        ELSE IF p = <<<<"A">>, <<"B">>>> THEN Leg(800, 240)
        ELSE Leg(900, 270)]

\* the example's legs, in both directions
ExampleDistances ==
    [k \in UNION {{Key(p[1], p[2]), Key(p[2], p[1])} : p \in DOMAIN ExampleLegs} |->
        LET p == CHOOSE q \in DOMAIN ExampleLegs :
                     k \in {Key(q[1], q[2]), Key(q[2], q[1])}
        IN ExampleLegs[p]]

(***************************************************************************)
(* services.PlanDeliveries (part_002 27-190), from the listing of the      *)
(* packages to the list of plans.  The assignment and the route of each    *)
(* truck are the calls modelled above; the pairwise fan-out, modelled step *)
(* by step above, is one step here.                                        *)
(***************************************************************************)
\* most trucks of a request
PlanTrucks == 2

\* largest capacity of the trucks of a request
PlanCapacity == 3

\* position of a destination name in NameList; the assignment compares the
\* positions as it compares the names
DestIdx(name) == CHOOSE i \in 1..Len(NameList) : NameList[i] = name

\* a destination as the repository stores it, with or without padding
Padded(name) == <<" ">> \o name

\* The packages of a repository with the destinations S: destination d has
\* Len(pkgDest(DestIdx(d))) packages; with pad the first package of each
\* destination is stored padded; blank is the destination of one more
\* package at the end of the list, or "none".
PlanPackages(S, pad, blank) ==
    LET names == Ascending(S)
        flat == UNION {{<<i, j>> : j \in 1..Len(pkgDest(DestIdx(names[i])))} :
                         i \in 1..Len(names)}
        before(x) == Cardinality({y \in flat :
                        y[1] < x[1] \/ (y[1] = x[1] /\ y[2] < x[2])})
        at(k) == CHOOSE x \in flat : before(x) = k - 1
        good == [k \in 1..Cardinality(flat) |->
                    [PackageID |-> k,
                     Destination |-> IF pad /\ at(k)[2] = 1
                                     THEN Padded(names[at(k)[1]])
                                     ELSE names[at(k)[1]]]]
    IN IF blank = "none" THEN good
       ELSE Append(good, [PackageID |-> Len(good) + 1,
                          Destination |-> IF blank = "empty" THEN StrEmpty ELSE StrBlank])

\* line 40 without the trimming
IsBlankUntrimmed(d) == d = StrEmpty

\* lines 39-40: d := strings.TrimSpace(pkg.Destination); d == ""
IsBlank(d) == TrimSpace(d) = StrEmpty

\* lines 38-48: the packages whose destination is blank, in list order
BlankIn(pkgs) == SelectSeq(pkgs, LAMBDA p : IsBlank(p.Destination))

\* lines 37-48: pkgDest
BuildPkgDest(pkgs) ==
    [d \in {TrimSpace(pkgs[i].Destination) : i \in 1..Len(pkgs)} |->
        SelectSeq(pkgs, LAMBDA p : TrimSpace(p.Destination) = d)]

\* the loop of line 180 with its end after the first truck
RangeDoneEarly(i, n) == i >= 1

\* line 180: the range over trucks is exhausted
RangeDone(i, n) == i >= n

\* the pairwise map without the entries that lead back to the hub
FullPairwiseOneWay(S) ==
    DistanceMap({StrHub} \cup S, <<>>, {Key(d, StrHub) : d \in S})

\* the pairwise map of a request whose every resolver call succeeded
FullPairwise(S) == DistanceMap({StrHub} \cup S, <<>>, {})

\* return values: a nil slice with an error, or the slice of plans
PNotReturned == [err |-> "unset", hasPlans |-> FALSE, plans |-> <<>>]

PReturnErr(e) == [err |-> e, hasPlans |-> FALSE, plans |-> <<>>]

PReturnPlans(ps) == [err |-> "nil", hasPlans |-> TRUE, plans |-> ps]

\* no call in progress
PlanIdle ==
    /\ pPkgs = <<>>
    /\ pRepoErr = FALSE
    /\ pTruckCount = 0
    /\ pTruckCapacity = 0
    /\ pReturnToStart = FALSE
    /\ pMatrix = FALSE
    /\ ppc = "idle"
    /\ pPkgDest = NoMap
    /\ pDestinations = <<>>
    /\ pHubDist = NoMap
    /\ pTrucks = <<>>
    /\ pPairwiseDist = NoMap
    /\ pTi = 0
    /\ plans = <<>>
    /\ pRet = PNotReturned
    /\ resolverCalls = 0

\* the call PlanDeliveries(ctx, req, repo, provider)
PlanInit(pkgs, repoErr, count, capacity, back, matrix) ==
    /\ pPkgs = pkgs
    /\ pRepoErr = repoErr
    /\ pTruckCount = count
    /\ pTruckCapacity = capacity
    /\ pReturnToStart = back
    /\ pMatrix = matrix
    /\ ppc = "call"
    /\ pPkgDest = NoMap
    /\ pDestinations = <<>>
    /\ pHubDist = NoMap
    /\ pTrucks = <<>>
    /\ pPairwiseDist = NoMap
    /\ pTi = 0
    /\ plans = <<>>
    /\ pRet = PNotReturned
    /\ resolverCalls = 0

\* the call returns r
PReturn(r) ==
    /\ ppc' = "done"
    /\ pRet' = r

\* the call has returned
PReturned == ppc = "done"

\* lines 33-56: the packages are listed and grouped by trimmed destination
PlanEntry ==
    /\ ppc = "call"
    /\ IF pRepoErr
       THEN /\ PReturn(PReturnErr("list package"))
            /\ UNCHANGED <<pPkgDest, pDestinations>>
       ELSE IF Len(BlankIn(pPkgs)) > 0
       THEN /\ PReturn(PReturnErr("empty destination"))
            /\ UNCHANGED <<pPkgDest, pDestinations>>
       ELSE /\ pPkgDest' = BuildPkgDest(pPkgs)
            /\ \E order \in Orders(DOMAIN BuildPkgDest(pPkgs)) : pDestinations' = order
            /\ IF DOMAIN BuildPkgDest(pPkgs) = {}
               THEN PReturn(PReturnPlans(<<>>))
               ELSE ppc' = "hub" /\ UNCHANGED pRet
    /\ UNCHANGED <<pInputs, pHubDist, pTrucks, pPairwiseDist, pTi, plans, resolverCalls>>
    /\ UNCHANGED outsidePlan

\* lines 58-82: the distances from the hub, by one GetDistances call of a
\* matrix provider or by one GetDistance call per destination
PlanHubLookup ==
    /\ ppc = "hub"
    /\ \E outcome \in {"ok", "error"} \cup (IF pMatrix THEN {"missing"} ELSE {}) :
       \E made \in 1..Len(pDestinations) :
         /\ pMatrix => made = 1
         /\ (~pMatrix /\ outcome = "ok") => made = Len(pDestinations)
         /\ resolverCalls' = resolverCalls + made
         /\ IF outcome = "ok"
            THEN /\ pHubDist' = [d \in DOMAIN pPkgDest |->
                                   FullPairwise(DOMAIN pPkgDest)[Key(StrHub, d)]]
                 /\ ppc' = "trucks"
                 /\ UNCHANGED pRet
            ELSE /\ PReturn(PReturnErr(IF outcome = "error" THEN "hub distance"
                                       ELSE "missing hub distance"))
                 /\ UNCHANGED pHubDist
    /\ UNCHANGED <<pInputs, pPkgDest, pDestinations, pTrucks, pPairwiseDist, pTi, plans>>
    /\ UNCHANGED outsidePlan

\* lines 84-90: the trucks are built and AssignPackagesByDistance is called
PlanAssignCall ==
    /\ ppc = "trucks"
    /\ ppc' = "assigning"
    /\ aDestinations' = [i \in 1..Len(pDestinations) |-> DestIdx(pDestinations[i])]
    /\ aDistances' = [d \in {DestIdx(x) : x \in DOMAIN pPkgDest} |->
                         pHubDist[NameList[d]].DistanceMeters]
    /\ aTrucks' = [i \in 1..pTruckCount |-> NewTruck(i, pTruckCapacity)]
    /\ apc' = "call"
    /\ ti' = 0
    /\ di' = 0
    /\ pi' = 0
    /\ aErr' = AssignUnset
    /\ UNCHANGED <<pInputs, pPkgDest, pDestinations, pHubDist, pTrucks, pPairwiseDist,
                   pTi, plans, pRet, resolverCalls>>
    /\ UNCHANGED outsidePlanAssign

\* lines 90-104: AssignPackagesByDistance has returned; `destinations` was
\* sorted in place, and package pkgDest(d)[j] of the call is the j-th
\* package of destination NameList[d]
PlanAssigned ==
    /\ ppc = "assigning"
    /\ apc = "done"
    /\ IF aErr # AssignOk
       THEN /\ PReturn(PReturnErr("assign packages"))
            /\ UNCHANGED <<pDestinations, pTrucks>>
       ELSE /\ pDestinations' = [i \in 1..Len(aDestinations) |-> NameList[aDestinations[i]]]
            /\ pTrucks' = [i \in 1..Len(aTrucks) |->
                  [TruckID |-> aTrucks[i].TruckID,
                   StartLocation |-> StrHub,
                   Packages |-> [k \in 1..Len(aTrucks[i].Packages) |->
                        pPkgDest[NameList[aTrucks[i].Packages[k][1]]]
                                [aTrucks[i].Packages[k][2]]]]]
            /\ ppc' = "pairwise"
            /\ UNCHANGED pRet
    /\ UNCHANGED <<pInputs, pPkgDest, pHubDist, pPairwiseDist, pTi, plans, resolverCalls>>
    /\ UNCHANGED outsidePlan

\* the location of origin or target i of the fan-out: workers are started
\* in the order of `destinations`
FanName(i) == IF i = Hub THEN StrHub ELSE pDestinations[i]

\* some package is stored with whitespace around its destination
StoredPadded ==
    \E i \in 1..Len(pPkgs) : pPkgs[i].Destination # TrimSpace(pPkgs[i].Destination)

\* the provider calls counted in `c`, one entry per worker
RECURSIVE FanCallSum(_, _)
FanCallSum(ws, c) ==
    IF ws = {} THEN 0
    ELSE LET w == CHOOSE x \in ws : TRUE IN c[w] + FanCallSum(ws \ {w}, c)

\* lines 128-147: the numbers of provider calls the workers can have made
\* when PlanDeliveries leaves the range over resultsCh: one GetDistances
\* call for each worker that has got that far, or one GetDistance call per
\* target up to the first that failed
FanCalls ==
    LET n == Cardinality(destinations)
        CallsOf(w) ==
            IF pc[w] \in {"unborn", "queued"} THEN {0}
            ELSE IF resolved[w] = "none" THEN 0..(IF pMatrix THEN 1 ELSE n)
            ELSE IF pMatrix THEN {1}
            ELSE IF resolved[w] = "full" THEN {n}
            ELSE 1..n
        counts == {c \in [destinations -> 0..n] : \A w \in destinations : c[w] \in CallsOf(w)}
    IN {FanCallSum(destinations, c) : c \in counts}

\* pairwiseDist with its keys origin+"|"+target
FanPairwise ==
    LET full == FullPairwise(DOMAIN pPkgDest)
    IN [k \in {Key(FanName(q[1]), FanName(q[2])) : q \in DOMAIN pairwiseDist} |-> full[k]]

\* lines 94-112: the hub entries of the map, the derived context, the
\* semaphore and the result channel; the workers are started next
PlanFanCall ==
    /\ ppc = "pairwise"
    /\ ppc' = "fanout"
    /\ LET dests == 1..Len(pDestinations) IN
       /\ destinations' = dests
       /\ padded' = StoredPadded
       /\ providerKinds' = IF pMatrix THEN AnyProvider(dests) ELSE LoopProvider(dests)
       /\ pcMain' = "dispatch"
       /\ pc' = [w \in dests |-> "unborn"]
       /\ semLen' = 0
       /\ wg' = 0
       /\ resultsCh' = <<>>
       /\ closed' = FALSE
       /\ ctxDone' = "live"
       /\ resolved' = [w \in dests |-> "none"]
       /\ pairwiseDist' = HubEntries(dests)
       /\ pairwiseErr' = "nil"
       /\ ret' = NotReturned
    /\ UNCHANGED <<pInputs, pPkgDest, pDestinations, pHubDist, pTrucks, pPairwiseDist,
                   pTi, plans, pRet, resolverCalls>>
    /\ UNCHANGED outsidePlanFan

\* the steps of the fan-out inside PlanDeliveries
PlanFanNext ==
    \/ Dispatch
    \/ Wait
    \/ Close
    \/ MergeOne
    \/ \E w \in destinations : Acquire(w)
    \/ \E w \in destinations : Resolve(w)
    \/ \E w \in destinations : Cancel(w)
    \/ \E w \in destinations : Release(w)
    \/ \E w \in destinations : WgDone(w)

\* lines 157-177: the range over resultsCh has ended, by the return of
\* line 169 or with the channel drained; with an error PlanDeliveries
\* returns it, and the deferred cancel() runs
PlanFanReturn ==
    /\ ppc = "fanout"
    /\ \/ pcMain = "done"
       \/ pcMain = "merge" /\ closed /\ resultsCh = <<>>
    /\ \E made \in FanCalls : resolverCalls' = resolverCalls + made
    /\ IF pcMain = "done"
       THEN /\ PReturn(PReturnErr("missing pairwise distance"))
            /\ UNCHANGED <<pPairwiseDist, pcMain, ctxDone>>
       ELSE IF pairwiseErr # "nil"
       THEN /\ PReturn(PReturnErr("pairwise distance"))
            /\ pcMain' = "done"
            /\ ctxDone' = DeferredCancel(ctxDone)
            /\ UNCHANGED pPairwiseDist
       ELSE /\ pPairwiseDist' = FanPairwise
            /\ ppc' = "route"
            /\ pcMain' = "route"
            /\ UNCHANGED <<pRet, ctxDone>>
    /\ UNCHANGED <<pInputs, pPkgDest, pDestinations, pHubDist, pTrucks, pTi, plans>>
    /\ UNCHANGED <<destinations, padded, providerKinds, pc, semLen, wg, resultsCh, closed,
                   resolved, pairwiseDist, pairwiseErr, ret>>
    /\ UNCHANGED outsidePlanFan

\* lines 180-181: NearestNeighborRoute is called for the next truck
PlanRouteCall ==
    /\ ppc = "route"
    /\ ~RangeDone(pTi, Len(pTrucks))
    /\ ppc' = "routing"
    /\ rTruck' = pTrucks[pTi + 1]
    /\ rDistances' = pPairwiseDist
    /\ rReturnToStart' = pReturnToStart
    /\ rpc' = "call"
    /\ remainingDestinations' = {}
    /\ currentLocation' = StrEmpty
    /\ currentTime' = 0
    /\ stops' = <<>>
    /\ totalDistanceMeters' = 0
    /\ totalDurationSeconds' = 0
    /\ picks' = <<>>
    /\ rLookups' = {}
    /\ rRet' = RNotReturned
    /\ UNCHANGED <<pInputs, pPkgDest, pDestinations, pHubDist, pTrucks, pPairwiseDist,
                   pTi, plans, pRet, resolverCalls>>
    /\ UNCHANGED outsidePlanRoute

\* lines 182-187: NearestNeighborRoute has returned
PlanRouteReturn ==
    /\ ppc = "routing"
    /\ rpc = "done"
    /\ IF rRet.err # "nil"
       THEN /\ PReturn(PReturnErr("plan nearest neighbor route"))
            /\ pcMain' = "done"
            /\ ctxDone' = DeferredCancel(ctxDone)
            /\ UNCHANGED <<pTi, plans>>
       ELSE /\ plans' = Append(plans, rRet.plan)
            /\ pTi' = pTi + 1
            /\ ppc' = "route"
            /\ UNCHANGED <<pRet, pcMain, ctxDone>>
    /\ UNCHANGED <<pInputs, pPkgDest, pDestinations, pHubDist, pTrucks, pPairwiseDist,
                   resolverCalls>>
    /\ UNCHANGED <<destinations, padded, providerKinds, pc, semLen, wg, resultsCh, closed,
                   resolved, pairwiseDist, pairwiseErr, ret>>
    /\ UNCHANGED outsidePlanFan

\* line 189: return plans, nil
PlanReturn ==
    /\ ppc = "route"
    /\ RangeDone(pTi, Len(pTrucks))
    /\ PReturn(PReturnPlans(plans))
    /\ pcMain' = "done"
    /\ ctxDone' = DeferredCancel(ctxDone)
    /\ UNCHANGED <<pInputs, pPkgDest, pDestinations, pHubDist, pTrucks, pPairwiseDist,
                   pTi, plans, resolverCalls>>
    /\ UNCHANGED <<destinations, padded, providerKinds, pc, semLen, wg, resultsCh, closed,
                   resolved, pairwiseDist, pairwiseErr, ret>>
    /\ UNCHANGED outsidePlanFan

PlanNext ==
    \/ PlanEntry
    \/ PlanHubLookup
    \/ PlanAssignCall
    \/ PlanAssigned
    \/ PlanFanCall
    \/ PlanFanReturn
    \/ PlanRouteCall
    \/ PlanRouteReturn
    \/ PlanReturn

(***************************************************************************)
(* Truck.ApplyPlan (internal/domain/truck.go).                             *)
(***************************************************************************)
\* the most stops of a plan that is applied
MaxPlanStops == 2

\* the package ids of the trucks and the plans
ApplyIDs == {1, 2, 3}

\* a time.Time pointer that is nil
NilTime == Null

\* domain.Package with the fields ApplyPlan reads and writes
ApplyPackage(id, loaded, delivered) ==
    [PackageID |-> id, LoadedAt |-> loaded, DeliveredAt |-> delivered]

\* a truck with the packages of the ids S, in ascending order of id, none of
\* them with a timestamp
ApplyTruck(id, S) ==
    [TruckID |-> id, DepartAt |-> NilTime,
     Packages |-> [i \in 1..Cardinality(S) |->
                     ApplyPackage(CHOOSE x \in S : Cardinality({y \in S : y < x}) = i - 1,
                                  NilTime, NilTime)]]

\* the plans that are applied: for either truck id and two departure times,
\* up to MaxPlanStops stops, each listing any of the ids 1 and 2, stop i
\* arriving 10 i seconds after the departure
ApplyStopIDs == {<<>>, <<1>>, <<2>>, <<1, 2>>}

ApplyPlans ==
    {RoutePlan(id, at, [i \in 1..Len(ids) |-> RouteStop(<<"S">>, at + 10 * i, ids[i])], 0, 0) :
        id \in {1, 2}, at \in {DepartAt, DepartAt + 60},
        ids \in UNION {[1..n -> ApplyStopIDs] : n \in 0..MaxPlanStops}}

\* lines 55-60: deliveredMap, the stops taken in order, so that a package id
\* listed by several stops keeps the ArriveAt of the last of them
RECURSIVE DeliveredMap(_)
DeliveredMap(ss) ==
    IF ss = <<>> THEN NoMap
    ELSE LET stop == ss[Len(ss)]
         IN Overlay(DeliveredMap(SubSeq(ss, 1, Len(ss) - 1)),
                    [pid \in SeqToSet(stop.PackageIDs) |-> stop.ArriveAt])

\* lines 49-53 without the reset of DeliveredAt
DepartedKeepingDelivered(pkg, at) == [pkg EXCEPT !.LoadedAt = at]

\* lines 49-53: LoadedAt = t.DepartAt, DeliveredAt = nil
Departed(pkg, at) == [pkg EXCEPT !.LoadedAt = at, !.DeliveredAt = NilTime]

\* lines 62-67: DeliveredAt of a package whose id is in deliveredMap
Delivered(pkg, deliveredMap) ==
    IF pkg.PackageID \in DOMAIN deliveredMap
    THEN [pkg EXCEPT !.DeliveredAt = deliveredMap[pkg.PackageID]]
    ELSE pkg

\* Truck.ApplyPlan: the truck after the call and the error returned
ApplyPlan(t, plan) ==
    IF plan.TruckID # t.TruckID
    THEN [truck |-> t, err |-> "mismatch"]
    ELSE [truck |-> [t EXCEPT !.DepartAt = plan.DepartAt,
                              !.Packages = [i \in 1..Len(t.Packages) |->
                                  Delivered(Departed(t.Packages[i], plan.DepartAt),
                                            DeliveredMap(plan.Stops))]],
          err |-> "nil"]

\* no truck in use
ApplyIdle ==
    /\ apTruck = ApplyTruck(0, {})
    /\ apPlan = NoPlan
    /\ apBefore = <<>>
    /\ apErr = "unset"
    /\ apState = "idle"

\* truck 1 with the packages of the ids S, before any plan
ApplyInit(S) ==
    /\ apTruck = ApplyTruck(1, S)
    /\ apPlan = NoPlan
    /\ apBefore = <<>>
    /\ apErr = "unset"
    /\ apState = "new"

\* t.ApplyPlan(plan) is called, for the first or the second time
ApplyPlanCall ==
    /\ apState \in {"new", "applied"}
    /\ \E plan \in ApplyPlans :
         LET res == ApplyPlan(apTruck, plan) IN
         /\ apPlan' = plan
         /\ apBefore' = apTruck.Packages
         /\ apTruck' = res.truck
         /\ apErr' = res.err
    /\ apState' = IF apState = "new" THEN "applied" ELSE "again"
    /\ UNCHANGED outsideApply

ApplyNext == ApplyPlanCall

(***************************************************************************)
(* PlanHandler.Plan (internal/api/handlers).                               *)
(***************************************************************************)
\* http.StatusOK, StatusBadRequest, StatusMethodNotAllowed,
\* StatusInternalServerError, StatusServiceUnavailable
StatusOK == 200

StatusBadRequest == 400

StatusMethodNotAllowed == 405

StatusInternalServerError == 500

StatusServiceUnavailable == 503

\* the defaults of lines 54-57 and 63-66
DefaultTruckCount == 3

DefaultTruckCapacity == 16

\* lines 45-48: hub := TrimSpace(req.Hub), or TrimSpace(h.DefaultHub)
HandlerHub(req) ==
    IF TrimSpace(req.hub) # StrEmpty THEN TrimSpace(req.hub) ELSE TrimSpace(req.defaultHub)

\* lines 54-57
HandlerTruckCount(req) == IF req.truckCount = 0 THEN DefaultTruckCount ELSE req.truckCount

\* lines 63-66
HandlerTruckCapacity(req) ==
    IF req.truckCapacity = 0 THEN DefaultTruckCapacity ELSE req.truckCapacity

\* lines 24-70: the status of the request the handler turns down, 0 for
\* a request it passes on to PlanDeliveries
Rejection(req) ==
    IF req.method # "POST" THEN StatusMethodNotAllowed
    ELSE IF req.body # "object" THEN StatusBadRequest
    ELSE IF HandlerHub(req) = StrEmpty THEN StatusBadRequest
    ELSE IF HandlerTruckCount(req) < 1 \/ HandlerTruckCount(req) > 10 THEN StatusBadRequest
    ELSE IF HandlerTruckCapacity(req) < 1 \/ HandlerTruckCapacity(req) > 100
    THEN StatusBadRequest
    ELSE 0

\* lines 86-90: writeError(w, r, http.StatusInternalServerError, ...),
\* whatever the error of PlanDeliveries
PlanErrorStatus(err) == StatusInternalServerError

\* no request
HandlerIdle ==
    /\ hReq = [method |-> "", body |-> "", hub |-> StrEmpty, defaultHub |-> StrEmpty,
               truckCount |-> 0, truckCapacity |-> 0, returnToStart |-> FALSE]
    /\ hStatus = 0
    /\ hpc = "idle"

\* the request req has reached the handler
HandlerInit(req) ==
    /\ hReq = req
    /\ hStatus = 0
    /\ hpc = "received"

\* lines 23-85: the request is checked and turned down, or PlanDeliveries is
\* called for it, over whatever the repository holds and either kind of
\* provider
HandlerReceive ==
    /\ hpc = "received"
    /\ IF Rejection(hReq) # 0
       THEN /\ hStatus' = Rejection(hReq)
            /\ hpc' = "responded"
            /\ UNCHANGED planVars
       ELSE /\ hpc' = "planning"
            /\ UNCHANGED hStatus
            /\ \E S \in SUBSET RouteNames, blank \in {"none", "empty"} :
               \E repoErr \in BOOLEAN, matrix \in BOOLEAN :
                 /\ pPkgs' = PlanPackages(S, FALSE, blank)
                 /\ pRepoErr' = repoErr
                 /\ pMatrix' = matrix
            /\ pTruckCount' = HandlerTruckCount(hReq)
            /\ pTruckCapacity' = HandlerTruckCapacity(hReq)
            /\ pReturnToStart' = hReq.returnToStart
            /\ ppc' = "call"
            /\ UNCHANGED <<pPkgDest, pDestinations, pHubDist, pTrucks, pPairwiseDist,
                           pTi, plans, pRet, resolverCalls>>
    /\ UNCHANGED hReq
    /\ UNCHANGED outsideHandlerPlan

\* lines 85-113: PlanDeliveries has returned; its error is logged and
\* answered with an error status, its plans are written with 200
HandlerRespond ==
    /\ hpc = "planning"
    /\ ppc = "done"
    /\ hStatus' = IF pRet.err # "nil" THEN PlanErrorStatus(pRet.err) ELSE StatusOK
    /\ hpc' = "responded"
    /\ UNCHANGED hReq
    /\ UNCHANGED outsideHandler

HandlerNext ==
    \/ HandlerReceive
    \/ HandlerRespond

(***************************************************************************)
(* SQLDistanceCache.PutMany and SQLGeocodeCache.PutMany: transactions of   *)
(* INSERT ... ON CONFLICT DO UPDATE on a table with a primary key.         *)
(***************************************************************************)
\* the callers of PutMany
Writers == {"w1", "w2"}

\* the values written: a call writes StoreValues[i] under all its keys
StoreValues == {1, 2}

\* the keys of the rows: (origin, destination) in distance_cache, (address)
\* in geocode_cache
StoreKeys(cache) ==
    IF cache = "distance"
    THEN {<<<<"A">>, <<"C">>>>, <<<<"A">>, <<"D">>>>, <<<<"B">>, <<"C">>>>}
    ELSE {<<a>> : a \in {<<"A">>, <<"B">>}}

\* the key sets of one PutMany call: a distance call has one origin
CallKeys(cache) ==
    {K \in SUBSET sKeys : K # {} /\ \A k, l \in K : cache = "distance" => k[1] = l[1]}

\* INSERT ... ON CONFLICT DO NOTHING: a row that is there stays as it is
InsertIfAbsent(table, k, v) ==
    IF \E r \in table : r.key = k THEN table ELSE table \cup {[key |-> k, value |-> v]}

\* INSERT ... ON CONFLICT (key) DO UPDATE SET value = EXCLUDED.value
Upsert(table, k, v) ==
    {r \in table : r.key # k} \cup {[key |-> k, value |-> v]}

\* the rows of a transaction that wrote v under the keys of ks, in that order
RECURSIVE UpsertAll(_, _, _)
UpsertAll(table, ks, v) ==
    IF ks = <<>> THEN table ELSE UpsertAll(Upsert(table, Head(ks), v), Tail(ks), v)

\* no call in progress
NoTx == [pc |-> "idle", todo |-> <<>>, done |-> <<>>, value |-> 0, contended |-> FALSE]

\* the keys an open transaction has written: it holds their row locks
\* until it commits or rolls back
LockedBy(w) == IF sTx[w].pc = "open" THEN SeqToSet(sTx[w].done) ELSE {}

\* the keys of the open transactions other than that of w
KeysOfOthers(w) ==
    UNION {SeqToSet(sTx[v].done) \cup SeqToSet(sTx[v].todo) :
              v \in {x \in Writers \ {w} : sTx[x].pc = "open"}}

\* no GetMany yet
NoRead == [keys |-> {}, rows |-> {}, last |-> NoMap]

\* the keys of the calls that may name a blank destination or address
AtomicKeys(cache) ==
    IF cache = "distance"
    THEN {<<<<"A">>, <<"C">>>>, <<<<"A">>, <<"D">>>>, <<<<"A">>, StrBlank>>}
    ELSE {<<a>> : a \in {<<"A">>, StrBlank}}

\* PutMany: strings.TrimSpace(dest) == "" (strings.TrimSpace(addr) == "")
BlankKey(k) == TrimSpace(k[Len(k)]) = StrEmpty

\* no table in use
StoreIdle ==
    /\ sCache = "none"
    /\ sTable = {}
    /\ sTx = [w \in {} |-> NoTx]
    /\ sLast = NoMap
    /\ sKeys = {}
    /\ sRead = NoRead

\* an empty table and no call yet
StoreInit(cache) ==
    /\ sCache = cache
    /\ sTable = {}
    /\ sTx = [w \in Writers |-> NoTx]
    /\ sLast = NoMap
    /\ sKeys = StoreKeys(cache)
    /\ sRead = NoRead

\* an empty table and no call yet, the calls to come naming blank keys too
AtomicInit(cache) ==
    /\ sCache = cache
    /\ sTable = {}
    /\ sTx = [w \in Writers |-> NoTx]
    /\ sLast = NoMap
    /\ sKeys = AtomicKeys(cache)
    /\ sRead = NoRead

\* BeginTx and PrepareContext: a call with some results, which the loop
\* will range over in some order
PutManyBegin(w) ==
    /\ w \in DOMAIN sTx
    /\ sTx[w].pc # "open"
    /\ \E K \in CallKeys(sCache), v \in StoreValues :
       \E order \in Orders(K) :
          sTx' = [sTx EXCEPT ![w] = [pc |-> "open", todo |-> order, done |-> <<>>,
                                     value |-> v, contended |-> FALSE]]
    /\ UNCHANGED <<sCache, sTable, sLast, sKeys, sRead>>
    /\ UNCHANGED outsideStore

\* a statement prepared on the database and not on the transaction: its
\* row is in the table at once
ExecAutocommit(table, k, v) == Upsert(table, k, v)

\* tx.PrepareContext, stmt.ExecContext: the row of a statement of an open
\* transaction is not in the table the other sessions read
ExecInTx(table, k, v) == table

\* the loop of PutMany for the next key: a blank key ends the call with an
\* error; stmt.ExecContext waits while another transaction that has written
\* the key is open
PutManyExec(w) ==
    /\ w \in DOMAIN sTx
    /\ sTx[w].pc = "open"
    /\ sTx[w].todo # <<>>
    /\ LET k == Head(sTx[w].todo) IN
       /\ ~BlankKey(k)
       /\ \A v \in Writers \ {w} : k \notin LockedBy(v)
       /\ sTx' = [sTx EXCEPT ![w].todo = Tail(@),
                             ![w].done = Append(@, k),
                             ![w].contended = @ \/ k \in KeysOfOthers(w)]
       /\ sTable' = ExecInTx(sTable, k, sTx[w].value)
    /\ UNCHANGED <<sCache, sLast, sKeys, sRead>>
    /\ UNCHANGED outsideStore

\* tx.Commit succeeds: the rows of the transaction become the rows of
\* their keys
PutManyCommit(w) ==
    /\ w \in DOMAIN sTx
    /\ sTx[w].pc = "open"
    /\ sTx[w].todo = <<>>
    /\ sTable' = UpsertAll(sTable, sTx[w].done, sTx[w].value)
    /\ sLast' = Overlay(sLast, [k \in SeqToSet(sTx[w].done) |-> sTx[w].value])
    /\ sTx' = [sTx EXCEPT ![w].pc = "committed"]
    /\ UNCHANGED <<sCache, sKeys, sRead>>
    /\ UNCHANGED outsideStore

\* a statement or the commit fails (a deadlock between two transactions
\* that write two keys in opposite orders, a cancelled context, a lost
\* connection): PutMany returns the error and the deferred tx.Rollback
\* drops what the transaction wrote
PutManyRollback(w) ==
    /\ w \in DOMAIN sTx
    /\ sTx[w].pc = "open"
    /\ sTx' = [sTx EXCEPT ![w] = [NoTx EXCEPT !.pc = "failed"]]
    /\ UNCHANGED <<sCache, sTable, sLast, sKeys, sRead>>
    /\ UNCHANGED outsideStore

StoreNext ==
    \E w \in Writers :
        \/ PutManyBegin(w)
        \/ PutManyExec(w)
        \/ PutManyCommit(w)
        \/ PutManyRollback(w)

\* GetMany: one SELECT for the keys asked that are not blank; it reads the
\* rows committed so far
GetMany ==
    /\ sCache \in {"distance", "geocode"}
    /\ LET uniq == {k \in sKeys : ~BlankKey(k)} IN
       sRead' = [keys |-> uniq,
                 rows |-> {r \in sTable : r.key \in uniq},
                 last |-> sLast]
    /\ UNCHANGED <<sCache, sTable, sTx, sLast, sKeys>>
    /\ UNCHANGED outsideStore

AtomicNext == StoreNext \/ GetMany

(***************************************************************************)
(* ORSDistanceProvider.geocodeMany (part_007 lines 29-136): one goroutine  *)
(* per unique address, at most GeoSemCap of them past the semaphore.  A    *)
(* goroutine is "unborn" before its go statement, "queued" at the send on  *)
(* sem (line 57), "inflight" while doWithRetry runs its request (lines     *)
(* 63-75) and the response is decoded, "cancelling" before cancel(),       *)
(* "releasing" and "finishing" in its deferred calls.                      *)
(***************************************************************************)
\* line 50: sem := make(chan struct{}, 5)
GeoSemCap == 5

StrC == <<"c">>
StrD == <<"d">>
StrE == <<"e">>
StrF == <<"f">>

\* the address lists of the calls: one of six different addresses, one
\* of them twice, and one with two addresses that differ in their spacing
\* only
GeoLongList == <<StrA, StrB, StrC, StrA, StrD, StrE, StrF>>

GeoShortList == <<StrAB, StrB, StrAxB>>

\* the calls: the addresses and those of them whose request the server
\* fails, which is none for the long list and any for the short one
GeoCalls ==
    {<<GeoLongList, {}>>}
        \cup {<<GeoShortList, f>> : f \in SUBSET {StrAB, StrB, StrAxB}}

\* the coordinates the server knows for a query text
GeoCoordinates(text) == [Lon |-> Len(text), Lat |-> Len(text) + 1]

\* geocodeResult{address, result, err}
GeoResult(addr, kind) ==
    [address |-> addr,
     result |-> IF kind = "ok" THEN GeoCoordinates(normalize(addr)) ELSE [Lon |-> 0, Lat |-> 0],
     err |-> IF kind = "ok" THEN "nil" ELSE kind]

\* the outcomes of the request of one address: coordinates, an error of
\* the request or of its decoding, or the context's error once it is done
GeoOutcomes(addr) ==
    (IF addr \in gmFailing THEN {"fail"} ELSE {"ok"})
        \cup (IF gmCtx = "done" THEN {"canceled"} ELSE {})

GeoNotReturned == [err |-> "unset", hasMap |-> FALSE, out |-> NoMap]

\* the goroutines past the send on sem and before the deferred receive
GeoSlotHolders ==
    {a \in DOMAIN gmPc : gmPc[a] \in {"inflight", "cancelling", "releasing"}}

\* the geocode requests in flight
GeoInFlight == {a \in DOMAIN gmPc : gmPc[a] = "inflight"}

GeoIdle ==
    /\ gmAddresses = <<>>
    /\ gmUnique = <<>>
    /\ gmFailing = {}
    /\ gmMain = "idle"
    /\ gmPc = NoMap
    /\ gmSem = 0
    /\ gmWg = 0
    /\ gmCh = <<>>
    /\ gmCtx = "live"
    /\ gmOut = NoMap
    /\ gmErr = "nil"
    /\ gmRet = GeoNotReturned

\* lines 35-52: the call with its `unique` built, before the loop
GeoInit(addresses, failing) ==
    /\ gmAddresses = addresses
    /\ gmUnique = Dedupe(addresses, {})
    /\ gmFailing = failing
    /\ gmMain = "dispatch"
    /\ gmPc = [a \in {addresses[i] : i \in 1..Len(addresses)} |-> "unborn"]
    /\ gmSem = 0
    /\ gmWg = 0
    /\ gmCh = <<>>
    /\ gmCtx = "live"
    /\ gmOut = NoMap
    /\ gmErr = "nil"
    /\ gmRet = GeoNotReturned

\* lines 54-56: wg.Add(1); go func(addr string) {...}(a), in the order of unique
GeoDispatch ==
    /\ gmMain = "dispatch"
    /\ \E i \in 1..Len(gmUnique) :
         /\ gmPc[gmUnique[i]] = "unborn"
         /\ \A j \in 1..(i - 1) : gmPc[gmUnique[j]] # "unborn"
         /\ gmPc' = [gmPc EXCEPT ![gmUnique[i]] = "queued"]
         /\ gmWg' = gmWg + 1
         /\ gmMain' = IF i = Len(gmUnique) THEN "wait" ELSE "dispatch"
    /\ UNCHANGED <<gmAddresses, gmUnique, gmFailing, gmSem, gmCh, gmCtx, gmOut, gmErr, gmRet>>
    /\ UNCHANGED outsideGeo

\* a semaphore that admits one sender too many
GeoSemHasRoomOffByOne == gmSem <= GeoSemCap

\* sem <- struct{}{} proceeds when the channel has room
GeoSemHasRoom == gmSem < GeoSemCap

\* line 57
GeoAcquire(a) ==
    /\ gmPc[a] = "queued"
    /\ GeoSemHasRoom
    /\ gmSem' = gmSem + 1
    /\ gmPc' = [gmPc EXCEPT ![a] = "inflight"]
    /\ UNCHANGED <<gmAddresses, gmUnique, gmFailing, gmMain, gmWg, gmCh, gmCtx, gmOut, gmErr, gmRet>>
    /\ UNCHANGED outsideGeo

\* lines 61-111: the request has returned and its result is sent:
\* resultsCh <- r keeps the order of the sends (the buffer has room for
\* every goroutine)
GeoRespond(a) ==
    /\ gmPc[a] = "inflight"
    /\ Len(gmCh) < Len(gmUnique)
    /\ \E kind \in GeoOutcomes(a) :
         /\ gmCh' = Append(gmCh, GeoResult(a, kind))
         /\ gmPc' = [gmPc EXCEPT ![a] = IF kind = "ok" THEN "releasing" ELSE "cancelling"]
    /\ UNCHANGED <<gmAddresses, gmUnique, gmFailing, gmMain, gmSem, gmWg, gmCtx, gmOut, gmErr, gmRet>>
    /\ UNCHANGED outsideGeo

\* lines 77, 84, 91, 97, 104: cancel()
GeoCancel(a) ==
    /\ gmPc[a] = "cancelling"
    /\ gmCtx' = "done"
    /\ gmPc' = [gmPc EXCEPT ![a] = "releasing"]
    /\ UNCHANGED <<gmAddresses, gmUnique, gmFailing, gmMain, gmSem, gmWg, gmCh, gmOut, gmErr, gmRet>>
    /\ UNCHANGED outsideGeo

\* line 59: defer func() { <-sem }()
GeoRelease(a) ==
    /\ gmPc[a] = "releasing"
    /\ gmSem' = gmSem - 1
    /\ gmPc' = [gmPc EXCEPT ![a] = "finishing"]
    /\ UNCHANGED <<gmAddresses, gmUnique, gmFailing, gmMain, gmWg, gmCh, gmCtx, gmOut, gmErr, gmRet>>
    /\ UNCHANGED outsideGeo

\* line 58: defer wg.Done()
GeoWgDone(a) ==
    /\ gmPc[a] = "finishing"
    /\ gmWg' = gmWg - 1
    /\ gmPc' = [gmPc EXCEPT ![a] = "done"]
    /\ UNCHANGED <<gmAddresses, gmUnique, gmFailing, gmMain, gmSem, gmCh, gmCtx, gmOut, gmErr, gmRet>>
    /\ UNCHANGED outsideGeo

\* lines 115-116: wg.Wait(); close(resultsCh)
GeoWait ==
    /\ gmMain = "wait"
    /\ gmWg = 0
    /\ gmMain' = "merge"
    /\ UNCHANGED <<gmAddresses, gmUnique, gmFailing, gmPc, gmSem, gmWg, gmCh, gmCtx, gmOut, gmErr, gmRet>>
    /\ UNCHANGED outsideGeo

\* lines 120-128: one result read from the channel
GeoMergeOne ==
    /\ gmMain = "merge"
    /\ gmCh # <<>>
    /\ LET res == Head(gmCh) IN
         /\ gmCh' = Tail(gmCh)
         /\ IF res.err # "nil"
            THEN /\ gmErr' = IF gmErr = "nil" THEN res.err ELSE gmErr
                 /\ UNCHANGED gmOut
            ELSE /\ gmOut' = [k \in DOMAIN gmOut \cup {normalize(res.address)} |->
                                 IF k = normalize(res.address) THEN res.result ELSE gmOut[k]]
                 /\ UNCHANGED gmErr
    /\ UNCHANGED <<gmAddresses, gmUnique, gmFailing, gmMain, gmPc, gmSem, gmWg, gmCtx, gmRet>>
    /\ UNCHANGED outsideGeo

\* lines 129-133 and the deferred cancel() of line 48
GeoReturn ==
    /\ gmMain = "merge"
    /\ gmCh = <<>>
    /\ gmRet' = IF gmErr # "nil"
                THEN [err |-> gmErr, hasMap |-> FALSE, out |-> NoMap]
                ELSE [err |-> "nil", hasMap |-> TRUE, out |-> gmOut]
    /\ gmCtx' = "done"
    /\ gmMain' = "done"
    /\ UNCHANGED <<gmAddresses, gmUnique, gmFailing, gmPc, gmSem, gmWg, gmCh, gmOut, gmErr>>
    /\ UNCHANGED outsideGeo

GeoNext ==
    \/ GeoDispatch
    \/ GeoWait
    \/ GeoMergeOne
    \/ GeoReturn
    \/ \E a \in DOMAIN gmPc : GeoAcquire(a)
    \/ \E a \in DOMAIN gmPc : GeoRespond(a)
    \/ \E a \in DOMAIN gmPc : GeoCancel(a)
    \/ \E a \in DOMAIN gmPc : GeoRelease(a)
    \/ \E a \in DOMAIN gmPc : GeoWgDone(a)

(***************************************************************************)
(* ORSDistanceProvider.GetDistances called at the same time by the origin  *)
(* workers of a request, or of several requests, on one provider: every    *)
(* call has its own locals and the calls share the two caches.  A call     *)
(* that fails stands for the call of a worker whose provider failed or     *)
(* whose context a sibling cancelled; the calls that run after it are      *)
(* those of the same or of a later request.  Each PutMany commits its      *)
(* batch in one transaction.                                               *)
(***************************************************************************)
\* the callers
SharedCallers == {1, 2}

\* the arguments of the calls: two spellings of one origin with
\* destinations in common, origins that are destinations of other calls,
\* a destination twice, a blank destination and a blank origin
SharedArgs ==
    { <<StrAB, <<StrA, StrB>> >>,
      <<StrAxB, <<StrB, StrBlank>> >>,
      <<StrA, <<StrB, StrAB>> >>,
      <<StrB, <<StrA, StrA>> >>,
      <<StrBlank, <<StrA>> >> }

\* the entries earlier requests can have left in the distance cache
SharedCached == {<<StrAB, StrB>>, <<StrA, StrB>>}

\* most calls of one caller
MaxCalls == 2

\* the n-th call of a caller before its first step
NewCall(args, n) ==
    [origin |-> args[1], dests |-> args[2], pc |-> "call", destinationHits |-> NoMap,
     geocodeHits |-> NoMap, fresh |-> NoMap, fetched |-> NoMap, err |-> "unset",
     call |-> n]

\* normOrigin := o.normalize(origin)
CallNormOrigin(c) == normalize(c.origin)

\* lines 153-174: destList
CallDestList(c) ==
    Dedupe(Without(Without([i \in 1..Len(c.dests) |-> normalize(c.dests[i])], {StrEmpty}),
                   {CallNormOrigin(c)}), {})

\* lines 190-195: destinationMisses
CallMisses(c) == MissesOf(CallDestList(c), c.destinationHits)

\* lines 201-205: needed
CallNeeded(c) == <<CallNormOrigin(c)>> \o CallMisses(c)

\* lines 217-222 and part_007 lines 37-45: the addresses to geocode
CallUnique(c) == Dedupe(Without(CallNeeded(c), DOMAIN c.geocodeHits), {})

\* lines 242-248: coords
CallCoords(c) == Overlay(c.geocodeHits, c.fresh)

\* the call returns with the error e ("nil" for a map)
CallReturns(c, e) == [c EXCEPT !.pc = "done", !.err = e]

SharedIdle ==
    /\ shCalls = NoMap
    /\ shDistance = NoMap
    /\ shGeocode = NoMap

\* the callers are about to call GetDistances with the arguments `args`,
\* the distance cache holds the entries `cached` and the geocode cache the
\* addresses `known`
SharedInit(args, cached, known) ==
    /\ shCalls = [i \in SharedCallers |-> NewCall(args[i], 1)]
    /\ shDistance = [k \in cached |-> CachedResult(k[1], k[2])]
    /\ shGeocode = [a \in known |-> Geocoder(a)]

\* lines 140-178: validation and normalisation of the arguments
CallEntry(i) ==
    /\ shCalls[i].pc = "call"
    /\ LET c == shCalls[i] IN
         shCalls' = [shCalls EXCEPT ![i] =
            IF c.origin = StrEmpty THEN CallReturns(c, "origin")
            ELSE IF Len(c.dests) = 0 THEN CallReturns(c, "nil")
            ELSE IF CallNormOrigin(c) = StrEmpty THEN CallReturns(c, "origin")
            ELSE IF Len(CallDestList(c)) = 0 THEN CallReturns(c, "nil")
            ELSE [c EXCEPT !.pc = "distanceCache"]]
    /\ UNCHANGED <<shDistance, shGeocode>>
    /\ UNCHANGED outsideShared

\* lines 180-199: the distance cache is read; every destination a hit: return
CallDistanceGet(i) ==
    /\ shCalls[i].pc = "distanceCache"
    /\ LET c == shCalls[i] IN
         \/ shCalls' = [shCalls EXCEPT ![i] = CallReturns(c, ReadFailed("distance cache").err)]
         \/ LET hits == DistanceGetMany(shDistance, CallNormOrigin(c), CallDestList(c))
                read == [c EXCEPT !.destinationHits = hits]
            IN shCalls' = [shCalls EXCEPT ![i] =
                  IF Len(MissesOf(CallDestList(c), hits)) = 0
                  THEN CallReturns(read, "nil")
                  ELSE [read EXCEPT !.pc = "geocodeCache"]]
    /\ UNCHANGED <<shDistance, shGeocode>>
    /\ UNCHANGED outsideShared

\* lines 201-222: the geocode cache is read for the origin and the misses
CallGeocodeGet(i) ==
    /\ shCalls[i].pc = "geocodeCache"
    /\ LET c == shCalls[i] IN
         \/ shCalls' = [shCalls EXCEPT ![i] = CallReturns(c, ReadFailed("geocode cache").err)]
         \/ LET hits == GeocodeGetMany(shGeocode, CallNeeded(c))
            IN shCalls' = [shCalls EXCEPT ![i] =
                  [c EXCEPT !.geocodeHits = hits,
                            !.pc = IF Len(Without(CallNeeded(c), DOMAIN hits)) > 0
                                   THEN "geocode" ELSE "matrix"]]
    /\ UNCHANGED <<shDistance, shGeocode>>
    /\ UNCHANGED outsideShared

\* lines 224-234: geocodeMany answers every address, or fails
CallGeocodeMany(i) ==
    /\ shCalls[i].pc = "geocode"
    /\ LET c == shCalls[i] IN
         \/ shCalls' = [shCalls EXCEPT ![i] =
               [c EXCEPT !.fresh = [a \in {normalize(x) : x \in SeqToSet(CallUnique(c))} |->
                                       Geocoder(a)],
                         !.pc = "geocodePut"]]
         \/ shCalls' = [shCalls EXCEPT ![i] = CallReturns(c, "geocode")]
    /\ UNCHANGED <<shDistance, shGeocode>>
    /\ UNCHANGED outsideShared

\* lines 236-240: the fresh coordinates are written back, best effort
CallGeocodePut(i) ==
    /\ shCalls[i].pc = "geocodePut"
    /\ \/ shGeocode' = GeocodePutMany(shGeocode, shCalls[i].fresh)
       \/ UNCHANGED shGeocode
    /\ shCalls' = [shCalls EXCEPT ![i].pc = "matrix"]
    /\ UNCHANGED shDistance
    /\ UNCHANGED outsideShared

\* lines 242-293: the coordinates are looked up and one matrix row is
\* fetched for the misses (fetchMatrixRow, ors_matrix.go lines 29-119)
CallFetchMatrixRow(i) ==
    /\ shCalls[i].pc = "matrix"
    /\ LET c == shCalls[i]
           misses == CallMisses(c)
       IN IF \E a \in SeqToSet(CallNeeded(c)) : a \notin DOMAIN CallCoords(c)
          THEN shCalls' = [shCalls EXCEPT ![i] = CallReturns(c, "missing coordinate")]
          ELSE LET locations == <<CoordsToList(CallCoords(c)[CallNormOrigin(c)])>> \o
                                [j \in 1..Len(misses) |-> CoordsToList(CallCoords(c)[misses[j]])]
               IN \/ shCalls' = [shCalls EXCEPT ![i] = CallReturns(c, "matrix request")]
                  \/ \E body \in MatrixBodies(locations) :
                        LET res == MatrixOut(misses, body)
                        IN shCalls' = [shCalls EXCEPT ![i] =
                              IF res.err # "nil" THEN CallReturns(c, res.err)
                              ELSE IF \E d \in SeqToSet(misses) : d \notin DOMAIN res.out
                              THEN CallReturns(c, "not returned")
                              ELSE [c EXCEPT !.fetched = res.out, !.pc = "distancePut"]]
    /\ UNCHANGED <<shDistance, shGeocode>>
    /\ UNCHANGED outsideShared

\* lines 295-309: the fetched row is written back, best effort, and the
\* call returns its map
CallDistancePut(i) ==
    /\ shCalls[i].pc = "distancePut"
    /\ \/ shDistance' = DistancePutMany(shDistance, CallNormOrigin(shCalls[i]),
                                        shCalls[i].fetched)
       \/ UNCHANGED shDistance
    /\ shCalls' = [shCalls EXCEPT ![i] = CallReturns(shCalls[i], "nil")]
    /\ UNCHANGED shGeocode
    /\ UNCHANGED outsideShared

\* the caller's call has failed, and it calls GetDistances again, as a
\* worker of a later request
CallAgain(i) ==
    /\ shCalls[i].pc = "done"
    /\ shCalls[i].err \notin {"nil", "origin"}
    /\ shCalls[i].call < MaxCalls
    /\ \E args \in SharedArgs :
          shCalls' = [shCalls EXCEPT ![i] = NewCall(args, shCalls[i].call + 1)]
    /\ UNCHANGED <<shDistance, shGeocode>>
    /\ UNCHANGED outsideShared

SharedNext ==
    \/ \E i \in DOMAIN shCalls : CallAgain(i)
    \/ \E i \in DOMAIN shCalls : CallEntry(i)
    \/ \E i \in DOMAIN shCalls : CallDistanceGet(i)
    \/ \E i \in DOMAIN shCalls : CallGeocodeGet(i)
    \/ \E i \in DOMAIN shCalls : CallGeocodeMany(i)
    \/ \E i \in DOMAIN shCalls : CallGeocodePut(i)
    \/ \E i \in DOMAIN shCalls : CallFetchMatrixRow(i)
    \/ \E i \in DOMAIN shCalls : CallDistancePut(i)

(***************************************************************************)
(* The merge of PlanDeliveries (part_002 lines 96-101 and 157-174) over    *)
(* the keys origin+"|"+target.                                             *)
(***************************************************************************)
\* destination names, some of them with the separator of the keys in them
MergeNameList == << <<"A">>, <<"A", "|", "B">>, <<"B", "|", "C">>, <<"C">> >>

MergeNames == {MergeNameList[i] : i \in 1..Len(MergeNameList)}

\* position of a location among the names, 0 for the hub
MergeIdx(x) ==
    IF x = StrHub THEN 0 ELSE CHOOSE i \in 1..Len(MergeNameList) : MergeNameList[i] = x

\* what the provider reports from one location to another
PairResult(from, to) ==
    [DistanceMeters |-> 100 * MergeIdx(from) + 10 * MergeIdx(to),
     DurationSeconds |-> 10 * MergeIdx(from) + MergeIdx(to)]

\* the result a worker sends for origin o when its resolver call succeeded:
\* a map over every other location of hubAndDests
OriginResult(o, S) ==
    [origin |-> o, results |-> [t \in ({StrHub} \cup S) \ {o} |-> PairResult(o, t)]]

\* lines 98-101: pairwiseDist[req.Hub+"|"+d] = distances[d]
HubKeyed(S) ==
    [k \in {Key(StrHub, d) : d \in S} |->
        PairResult(StrHub, CHOOSE d \in S : Key(StrHub, d) = k)]

\* a merge that replaces the map by the entries of the result
KeyedMergeReplacing(m, res, S) ==
    [k \in {Key(res.origin, t) : t \in ({StrHub} \cup S) \ {res.origin}} |->
        res.results[CHOOSE t \in ({StrHub} \cup S) \ {res.origin} : Key(res.origin, t) = k]]

\* lines 165-173: pairwiseDist[res.origin+"|"+t] = r for every t of
\* hubAndDests other than the origin
KeyedMerge(m, res, S) ==
    Overlay(m,
        [k \in {Key(res.origin, t) : t \in ({StrHub} \cup S) \ {res.origin}} |->
            res.results[CHOOSE t \in ({StrHub} \cup S) \ {res.origin} :
                            Key(res.origin, t) = k]])

\* no merge in progress
MergeIdle ==
    /\ mNames = {}
    /\ mQueue = <<>>
    /\ mMap = NoMap
    /\ mState = "idle"

\* line 157: every worker of the destinations S has succeeded and sent its
\* result, in the order `order`; the channel is closed
MergeInit(S, order) ==
    /\ mNames = S
    /\ mQueue = [i \in 1..Len(order) |-> OriginResult(order[i], S)]
    /\ mMap = HubKeyed(S)
    /\ mState = "merge"

\* lines 158-174: one iteration of the range over resultsCh
KeyedMergeOne ==
    /\ mState = "merge"
    /\ mQueue # <<>>
    /\ mMap' = KeyedMerge(mMap, Head(mQueue), mNames)
    /\ mQueue' = Tail(mQueue)
    /\ UNCHANGED <<mNames, mState>>
    /\ UNCHANGED outsideMerge

\* lines 175-177: the channel is drained and no error was read
KeyedMergeDone ==
    /\ mState = "merge"
    /\ mQueue = <<>>
    /\ mState' = "done"
    /\ UNCHANGED <<mNames, mQueue, mMap>>
    /\ UNCHANGED outsideMerge

MergeNext ==
    \/ KeyedMergeOne
    \/ KeyedMergeDone

(***************************************************************************)
(* Specifications.                                                         *)
(***************************************************************************)
\* no request in progress
FanIdle == FanInit(0, FALSE, AnyProvider({}), {}, FALSE)

Init ==
    /\ \E stored \in BOOLEAN :
          FanInit(NumDests, stored, AnyProvider(1..NumDests), {}, FALSE)
    /\ ResolveIdle
    /\ AssignIdle
    /\ RouteIdle
    /\ TruckIdle
    /\ PlanIdle
    /\ GeoIdle
    /\ SharedIdle
    /\ MergeIdle
    /\ StoreIdle
    /\ HandlerIdle
    /\ ApplyIdle

Next == FanNext \/ ParentCancel

Spec == Init /\ [][Next]_vars

PoolInit ==
    /\ FanInit(PoolDests, FALSE, MockProvider(1..PoolDests, 1), {}, FALSE)
    /\ ResolveIdle
    /\ AssignIdle
    /\ RouteIdle
    /\ TruckIdle
    /\ PlanIdle
    /\ GeoIdle
    /\ SharedIdle
    /\ MergeIdle
    /\ StoreIdle
    /\ HandlerIdle
    /\ ApplyIdle

PoolNext == FanNext

SpecPool == PoolInit /\ [][PoolNext]_vars

\* The fan-out of more origins than slots under fair scheduling: the
\* PlanDeliveries goroutine and every worker goroutine take their next step
\* when it stays possible (each resolver call returns); the first worker
\* fails and trips the cancellation.
\* one origin more than the semaphore has slots
LiveDests == 1..(SemCap + 1)

MainStep == Dispatch \/ Wait \/ Close \/ MergeOne \/ Return

WorkerStep(w) == Acquire(w) \/ Resolve(w) \/ Cancel(w) \/ Release(w) \/ WgDone(w)

Fairness ==
    /\ WF_vars(MainStep)
    /\ \A w \in LiveDests : WF_vars(WorkerStep(w))

LiveNext == FanNext

LiveInit ==
    /\ FanInit(SemCap + 1, FALSE, MockProvider(LiveDests, 1), {}, FALSE)
    /\ ResolveIdle
    /\ AssignIdle
    /\ RouteIdle
    /\ TruckIdle
    /\ PlanIdle
    /\ GeoIdle
    /\ SharedIdle
    /\ MergeIdle
    /\ StoreIdle
    /\ HandlerIdle
    /\ ApplyIdle

SpecLive == LiveInit /\ [][LiveNext]_vars /\ Fairness

\* One doWithRetry call against any server; the caller may cancel.
RetryInit ==
    /\ FanInit(1, FALSE, AnyProvider(1..1), AnyServer, TRUE)
    /\ ResolveIdle
    /\ AssignIdle
    /\ RouteIdle
    /\ TruckIdle
    /\ PlanIdle
    /\ GeoIdle
    /\ SharedIdle
    /\ MergeIdle
    /\ StoreIdle
    /\ HandlerIdle
    /\ ApplyIdle

SingleNext == RetryNext \/ ParentCancel

SpecRetry == RetryInit /\ [][SingleNext]_vars

\* Concurrent doWithRetry calls of the fan-out's workers.
CancelInit ==
    /\ FanInit(NumCallers, FALSE, AnyProvider(1..NumCallers), SmallServer, FALSE)
    /\ ResolveIdle
    /\ AssignIdle
    /\ RouteIdle
    /\ TruckIdle
    /\ PlanIdle
    /\ GeoIdle
    /\ SharedIdle
    /\ MergeIdle
    /\ StoreIdle
    /\ HandlerIdle
    /\ ApplyIdle

CancelNext == RetryNext

SpecCancel == CancelInit /\ [][CancelNext]_vars

\* One GetDistances call, for every request over the addresses and every
\* content of the caches that earlier calls for its origin can have left.
GetDistancesInit ==
    /\ FanIdle
    /\ AssignIdle
    /\ RouteIdle
    /\ TruckIdle
    /\ PlanIdle
    /\ GeoIdle
    /\ SharedIdle
    /\ MergeIdle
    /\ StoreIdle
    /\ HandlerIdle
    /\ ApplyIdle
    /\ \E o \in RawStrings, ds \in DestLists(MaxDestList) :
        \E known \in SUBSET NormStrings :
        \E cached \in SUBSET (IF normalize(o) = StrEmpty THEN {}
                              ELSE NormStrings \ {normalize(o)}) :
            ResolveInit(o, ds, known, cached)

SpecResolve == GetDistancesInit /\ [][ResolveNext]_vars

\* A GetDistances call and, where it returned a map, its repetition.
SpecWarm == GetDistancesInit /\ [][ResolveNext \/ GetDistancesAgain]_vars

\* One AssignPackagesByDistance call, for every order of up to
\* MaxAssignDests destinations, every choice of their hub distances, and up
\* to MaxTrucks new trucks of one capacity.
AssignCallInit ==
    /\ FanIdle
    /\ ResolveIdle
    /\ RouteIdle
    /\ TruckIdle
    /\ PlanIdle
    /\ GeoIdle
    /\ SharedIdle
    /\ MergeIdle
    /\ StoreIdle
    /\ HandlerIdle
    /\ ApplyIdle
    /\ \E n \in 0..MaxAssignDests, k \in 0..MaxTrucks, capacity \in 1..MaxCapacity :
        \E order \in Permutations(1..n), dist \in [1..n -> HubDistances] :
            AssignInit(order, dist, k, capacity)

SpecAssign == AssignCallInit /\ [][AssignNext]_vars

\* A truck of the request under any sequence of its operations, or one
\* AssignPackagesByDistance call loading the trucks of the request.
TruckOpsInit ==
    /\ FanIdle
    /\ ResolveIdle
    /\ RouteIdle
    /\ PlanIdle
    /\ GeoIdle
    /\ SharedIdle
    /\ MergeIdle
    /\ StoreIdle
    /\ HandlerIdle
    /\ ApplyIdle
    /\ \/ /\ AssignIdle
          /\ \E capacity \in 1..MaxCapacity : TruckInit(capacity)
       \/ /\ TruckIdle
          /\ \E n \in 0..MaxAssignDests, k \in 0..MaxTrucks, capacity \in 1..MaxCapacity :
              \E order \in Permutations(1..n), dist \in [1..n -> HubDistances] :
                  AssignInit(order, dist, k, capacity)

SpecTruck == TruckOpsInit /\ [][TruckNext \/ AssignNext]_vars

\* One PlanDeliveries call: a repository holding packages for zero to
\* MaxStops destinations, stored trimmed or padded, possibly with one more
\* package of empty or blank destination, or failing; one to PlanTrucks
\* trucks of capacity 1 to PlanCapacity; either kind of provider.
PlanCallInit ==
    /\ FanIdle
    /\ GeoIdle
    /\ SharedIdle
    /\ MergeIdle
    /\ StoreIdle
    /\ HandlerIdle
    /\ ApplyIdle
    /\ ResolveIdle
    /\ AssignIdle
    /\ RouteIdle
    /\ TruckIdle
    /\ \E S \in SUBSET RouteNames, pad \in BOOLEAN, blank \in {"none", "empty", "blank"} :
       \E repoErr \in BOOLEAN, count \in 1..PlanTrucks, capacity \in 1..PlanCapacity :
       \E back \in BOOLEAN, matrix \in BOOLEAN :
           PlanInit(PlanPackages(S, pad, blank), repoErr, count, capacity, back, matrix)

SpecPlan == PlanCallInit /\ [][PlanNext \/ PlanFanNext \/ AssignNext \/ RouteNext]_vars

\* the legs one of which the distance map may lack: those from the hub,
\* those back to the hub, and between two destinations the leg from the
\* smaller name to the larger (the route takes it in either direction,
\* depending on the durations)
Droppable(S) ==
    {p \in ({StrHub} \cup S) \X ({StrHub} \cup S) :
        /\ p[1] # p[2]
        /\ p[1] = StrHub \/ p[2] = StrHub \/ StrLess(p[1], p[2])}

\* One NearestNeighborRoute call: a truck at the hub with zero to MaxStops
\* destinations, the first of them with two packages, every choice of
\* the leg durations, a distance map over the hub and all the destinations
\* of the request that is complete or lacks one key, and either value of
\* returnToStart; or the worked example.
RouteCallInit ==
    /\ FanIdle
    /\ ResolveIdle
    /\ AssignIdle
    /\ TruckIdle
    /\ PlanIdle
    /\ GeoIdle
    /\ SharedIdle
    /\ MergeIdle
    /\ StoreIdle
    /\ HandlerIdle
    /\ ApplyIdle
    /\ \/ \E S \in SUBSET RouteNames, back \in BOOLEAN :
          \E D \in {{e \in S : \A f \in S : f = e \/ StrLess(e, f)}} :
          \E legs \in [{P \in SUBSET ({StrHub} \cup S) : Cardinality(P) = 2} -> LegDurations] :
          \E dropped \in {{}} \cup {{Key(p[1], p[2])} : p \in Droppable(S)} :
              RouteInit([TruckID |-> 1, StartLocation |-> StrHub,
                         Packages |-> PackagesFor(S, D)],
                        DistanceMap({StrHub} \cup RouteNames, legs, dropped), back)
       \/ RouteInit(ExampleTruck, ExampleDistances, FALSE)

SpecRoute == RouteCallInit /\ [][RouteNext]_vars

\* A truck with any of the packages 1, 2 and 3, to which one plan and then
\* another is applied.
ApplyCallInit ==
    /\ FanIdle
    /\ ResolveIdle
    /\ AssignIdle
    /\ RouteIdle
    /\ TruckIdle
    /\ PlanIdle
    /\ GeoIdle
    /\ SharedIdle
    /\ MergeIdle
    /\ StoreIdle
    /\ HandlerIdle
    /\ \E S \in SUBSET ApplyIDs : ApplyInit(S)

SpecApply == ApplyCallInit /\ [][ApplyNext]_vars

\* PutMany calls of the writers, one after another and at the same time, on
\* the distance cache or on the geocode cache.
StoreCallInit ==
    /\ FanIdle
    /\ ResolveIdle
    /\ AssignIdle
    /\ RouteIdle
    /\ TruckIdle
    /\ PlanIdle
    /\ GeoIdle
    /\ SharedIdle
    /\ MergeIdle
    /\ ApplyIdle
    /\ HandlerIdle
    /\ \E cache \in {"distance", "geocode"} : StoreInit(cache)

SpecStore == StoreCallInit /\ [][StoreNext]_vars

\* PutMany calls, some of them with a blank key, next to GetMany calls.
AtomicCallInit ==
    /\ FanIdle
    /\ ResolveIdle
    /\ AssignIdle
    /\ RouteIdle
    /\ TruckIdle
    /\ PlanIdle
    /\ GeoIdle
    /\ SharedIdle
    /\ MergeIdle
    /\ HandlerIdle
    /\ ApplyIdle
    /\ \E cache \in {"distance", "geocode"} : AtomicInit(cache)

SpecAtomic == AtomicCallInit /\ [][AtomicNext]_vars

\* The merge after a fan-out in which every origin succeeded, for every
\* set of destinations among MergeNames and every order of the results.
MergeCallInit ==
    /\ FanIdle
    /\ ResolveIdle
    /\ AssignIdle
    /\ RouteIdle
    /\ TruckIdle
    /\ PlanIdle
    /\ GeoIdle
    /\ SharedIdle
    /\ ApplyIdle
    /\ HandlerIdle
    /\ StoreIdle
    /\ \E S \in SUBSET MergeNames : \E order \in Orders(S) : MergeInit(S, order)

SpecMerge == MergeCallInit /\ [][MergeNext]_vars

\* One geocodeMany call, for more addresses than the semaphore has slots
\* or for a few addresses and any failures of the server.
GeoCallInit ==
    /\ FanIdle
    /\ SharedIdle
    /\ ResolveIdle
    /\ AssignIdle
    /\ RouteIdle
    /\ TruckIdle
    /\ PlanIdle
    /\ MergeIdle
    /\ StoreIdle
    /\ HandlerIdle
    /\ ApplyIdle
    /\ \E call \in GeoCalls : GeoInit(call[1], call[2])

SpecGeo == GeoCallInit /\ [][GeoNext]_vars

\* GetDistances calls of two callers at the same time, for every pair of
\* arguments among SharedArgs, over caches that earlier requests left
\* empty or filled; a caller whose call failed calls again.
SharedCallInit ==
    /\ FanIdle
    /\ ResolveIdle
    /\ AssignIdle
    /\ RouteIdle
    /\ TruckIdle
    /\ PlanIdle
    /\ GeoIdle
    /\ MergeIdle
    /\ StoreIdle
    /\ HandlerIdle
    /\ ApplyIdle
    /\ \E args \in [SharedCallers -> SharedArgs], cached \in SUBSET SharedCached :
       \E known \in {{}, NormStrings} :
           SharedInit(args, cached, known)

SpecShared == SharedCallInit /\ [][SharedNext]_vars

\* the requests: either method, a body that is one JSON object or not, a
\* hub given, blank or left to a DefaultHub that may be empty too, and truck
\* counts and capacities inside and outside their ranges, 0 standing for
\* the default
HandlerRequests ==
    [method : {"POST", "GET"}, body : {"object", "invalid"},
     hub : {StrEmpty, StrHub}, defaultHub : {StrEmpty, StrHub},
     truckCount : {0, 1, 11}, truckCapacity : {0, 2, 101},
     returnToStart : {FALSE}]

\* One request to POST /plans and the PlanDeliveries call made for it.
HandlerCallInit ==
    /\ FanIdle
    /\ ResolveIdle
    /\ AssignIdle
    /\ RouteIdle
    /\ TruckIdle
    /\ PlanIdle
    /\ GeoIdle
    /\ SharedIdle
    /\ MergeIdle
    /\ StoreIdle
    /\ ApplyIdle
    /\ StoreIdle
    /\ \E req \in HandlerRequests : HandlerInit(req)

SpecHandler == HandlerCallInit /\ [][HandlerNext \/ PlanNext \/ PlanFanNext \/ AssignNext \/ RouteNext]_vars

(***************************************************************************)
(* Claims about the fan-out.                                               *)
(***************************************************************************)
\* C1 (as amended): when the resolver call of some origin has failed,
\* PlanDeliveries returns an error and no plans (hence no pairwise map), in
\* every interleaving of the workers.
C1_FailureAbortsRequest ==
    (Returned /\ FailedOrigins # {}) =>
        (ret.err # "nil" /\ ~ret.hasPlans /\ ret.plansFrom = NoMap)

\* C1 witness: the request has returned after one origin failed and another
\* succeeded with a complete map.
C1_Witness ==
    /\ Returned
    /\ \E w \in destinations : resolved[w] = "fail"
    /\ \E v \in destinations : resolved[v] = "full"

\* C1 as stated: in addition, nothing of any origin has been merged into the
\* pairwise map when the failed request returns.
C1_NoPartialMerge ==
    (Returned /\ FailedOrigins # {}) =>
        /\ ret.err # "nil"
        /\ ~ret.hasPlans
        /\ ret.plansFrom = NoMap
        /\ pairwiseDist = HubEntries(destinations)

\* C4: at every moment at most 5 origin workers hold a semaphore slot.
C4_AtMostFiveInFlight == Cardinality(SlotHolders) <= 5

\* C4 witness: five workers hold a slot while a sixth is queued on sem.
C4_Witness ==
    /\ Cardinality(SlotHolders) = 5
    /\ \E w \in destinations : pc[w] = "queued"

\* C5: PlanDeliveries closes and reads resultsCh, and returns, only when
\* every dispatched worker has finished, also after cancellation.
C5_InspectsAfterAllFinished ==
    pcMain \in {"close", "merge", "done"} => \A w \in destinations : pc[w] = "done"

\* C5 witness: the results are being read after a worker tripped the
\* cancellation and a sibling ended on the cancelled context.
C5_Witness ==
    /\ pcMain = "merge"
    /\ ctxDone = "worker"
    /\ \E w \in destinations : resolved[w] = "canceled"

(***************************************************************************)
(* Claims about doWithRetry.                                               *)
(***************************************************************************)
RetriedStatuses == {Status(c) : c \in {429, 500, 502, 503, 504}}

\* C6: once the shared context is done, no worker sends a further HTTP
\* request (none moves to "inflight"), and a worker at the top of its attempt
\* loop or in a backoff wait makes no further attempt: it leaves only by
\* returning the context's error, or from the wait to the check at the top
\* of the loop. So a queued worker makes no attempt and a worker that was in
\* flight makes none after its current one.
C6_NoAttemptAfterCancel ==
    [][ctxDone # "live" =>
         \A w \in destinations :
            /\ (pc'[w] = "inflight" => pc[w] = "inflight")
            /\ (pc[w] = "attempt" /\ pc'[w] # "attempt") => resolved'[w] = "canceled"
            /\ (pc[w] = "backoff" /\ pc'[w] # "backoff") =>
                   (pc'[w] = "attempt" \/ resolved'[w] = "canceled")
            /\ (pc[w] \in {"unborn", "queued", "resolving"} /\ resolved'[w] # "none")
                   => resolved'[w] = "canceled"]_vars

\* C6 witness: a failing origin tripped the cancellation while a sibling was
\* in a backoff wait after a 503, and the sibling ended with the context's
\* error.
C6_Witness ==
    /\ ctxDone = "worker"
    /\ \E w \in destinations :
         /\ resolved[w] = "canceled"
         /\ lastErr[w] = Status(503)

\* C7: three 503 responses followed by a 200 make the call succeed on its
\* fourth attempt; four 503 responses make it fail with the 503 error after
\* exactly 4 attempts and 3 waits.
C7_FourAttemptBudget ==
    \A w \in destinations :
        LET h == hist[w] IN
        /\ (Len(h) >= 4 /\ (\A i \in 1..3 : h[i] = Status(503)) /\ h[4] = Status(200))
              => (resolved[w] = "full" /\ sent[w] = 4 /\ Len(h) = 4)
        /\ (Len(h) >= 4 /\ (\A i \in 1..4 : h[i] = Status(503)))
              => /\ resolved[w] = "fail"
                 /\ lastErr[w] = Status(503)
                 /\ Len(h) = 4
                 /\ sent[w] = 4
                 /\ Len(waits[w]) = 3

\* C7 witness: the call succeeded on a 200 after three 503 responses.
C7_Witness ==
    \E w \in destinations :
        /\ hist[w] = <<Status(503), Status(503), Status(503), Status(200)>>
        /\ resolved[w] = "full"

\* C8: an attempt is followed by another one only if it failed with 429,
\* 500, 502, 503, 504 or a network error; any other status of 400 or above
\* ends the call at once with that error, without a wait after it (after
\* exactly one attempt when it answers the first).
C8_RetryOnlyTransient ==
    \A w \in destinations :
        LET h == hist[w]
            n == Len(h)
        IN
        /\ \A i \in 1..n :
              (i < n \/ pc[w] \in {"backoff", "attempt", "do", "inflight"})
                  => h[i] \in RetriedStatuses \cup {NetErr, CtxErr}
        /\ \A i \in 1..(n - 1) : h[i] \in RetriedStatuses \cup {NetErr}
        /\ (n >= 1 /\ IsHttpError(h[n]) /\ h[n] \notin RetriedStatuses)
              => /\ resolved[w] = "fail"
                 /\ lastErr[w] = h[n]
                 /\ sent[w] = n
                 /\ Len(waits[w]) = n - 1

\* C8 witness: a 404 on the first attempt failed the call after one request
\* and no wait.
C8_Witness ==
    \E w \in destinations :
        /\ hist[w] = <<Status(404)>>
        /\ resolved[w] = "fail"
        /\ sent[w] = 1
        /\ waits[w] = <<>>

(***************************************************************************)
(* Claims about GetDistances.                                              *)
(***************************************************************************)
\* the normalised forms of the requested destinations, other than the blank
\* ones and the normalised origin
RequestedKeys ==
    {normalize(gDests[i]) : i \in 1..Len(gDests)} \ {StrEmpty, normalize(gOrigin)}

\* C2 (as amended): a call of GetDistances either returns an error and no
\* map, or returns a map whose keys are exactly the normalised forms of the
\* requested destinations that are not blank and differ from the normalised
\* origin.
C2_AllOrNothing ==
    GReturned =>
        \/ gRet.err # "nil" /\ ~gRet.hasMap /\ gRet.out = NoMap
        \/ gRet.err = "nil" /\ gRet.hasMap /\ DOMAIN gRet.out = RequestedKeys

\* C2 witness: a call has returned a map of two destinations, one answered
\* by the distance cache and one by the matrix service.
C2_Witness ==
    /\ GReturned
    /\ gRet.hasMap
    /\ Cardinality(DOMAIN gRet.out) = 2
    /\ Cardinality(DOMAIN destinationHits) = 1
    /\ Cardinality(DOMAIN fetched) = 1

\* C2 as stated: a successful call has an entry for every destination that
\* was requested.
C2_EveryRequestedPresent ==
    (GReturned /\ gRet.err = "nil") =>
        \A i \in 1..Len(gDests) : gDests[i] \in DOMAIN gRet.out

\* every requested destination was in the distance cache, for the origin,
\* when the call began
AllRequestedCached ==
    /\ Len(gDests) > 0
    /\ \A i \in 1..Len(gDests) :
          <<normalize(gOrigin), normalize(gDests[i])>> \in DOMAIN cacheAtCall.distance

\* C3: when every requested destination is in the distance cache for the
\* origin, the call issues no geocode and no matrix request, writes to
\* neither cache, and, the cache read having succeeded, returns exactly the
\* cached values.
C3_AllHitsNoUpstream ==
    AllRequestedCached =>
        /\ geocodeSent = 0
        /\ matrixSent = <<>>
        /\ cachePuts = [distance |-> 0, geocode |-> 0]
        /\ distanceCache = cacheAtCall.distance
        /\ geocodeCache = cacheAtCall.geocode
        /\ GReturned =>
              \/ gRet = GReturnErr("distance cache")
              \/ gRet = GReturnMap([d \in RequestedKeys |->
                                      cacheAtCall.distance[<<normalize(gOrigin), d>>]])

\* C3 witness: a call whose two destinations were both cached has returned
\* a map, although the geocode cache knew none of the addresses.
C3_Witness ==
    /\ GReturned
    /\ AllRequestedCached
    /\ gRet.hasMap
    /\ Cardinality(DOMAIN gRet.out) = 2
    /\ geocodeCache = NoMap

(***************************************************************************)
(* Claims about AssignPackagesByDistance.                                  *)
(***************************************************************************)
\* the input destinations
AssignDests == DOMAIN aDistances

\* the call has returned without error
Assigned == apc = "done" /\ aErr = AssignOk

\* the destinations with a package on the truck at 0-based index i
DestsOn(i) == {aTrucks[i + 1].Packages[j][1] : j \in 1..Len(aTrucks[i + 1].Packages)}

\* the places where package p lies: <<truck index, position in its list>>
PlacesOf(p) ==
    {x \in UNION {{<<i, j>> : j \in 1..Len(aTrucks[i].Packages)} : i \in 1..Len(aTrucks)} :
        aTrucks[x[1]].Packages[x[2]] = p}

\* C9: for a non-empty truck list and a non-empty destination set, when
\* AssignPackagesByDistance returns without error every input destination
\* is on exactly one truck and every package lies on exactly one truck,
\* exactly once.
C9_EveryDestinationOnce ==
    (Assigned /\ Len(aTrucks) > 0 /\ AssignDests # {}) =>
        /\ \A d \in AssignDests :
              Cardinality({i \in 0..(Len(aTrucks) - 1) : d \in DestsOn(i)}) = 1
        /\ \A d \in AssignDests : \A j \in 1..Len(pkgDest(d)) :
              Cardinality(PlacesOf(pkgDest(d)[j])) = 1
        /\ \A i \in 0..(Len(aTrucks) - 1) : DestsOn(i) \subseteq AssignDests

\* C9 witness: four destinations, two of them with two packages, have been
\* assigned to two trucks.
C9_Witness ==
    /\ Assigned
    /\ Cardinality(AssignDests) = 4
    /\ Len(aTrucks) = 2
    /\ \A i \in 1..2 : Len(aTrucks[i].Packages) = 3

\* position of destination d in the order (DistanceMeters ascending,
\* destination ascending), counted from 0
Rank(d) ==
    Cardinality({e \in AssignDests :
                    \/ aDistances[e] < aDistances[d]
                    \/ aDistances[e] = aDistances[d] /\ e < d})

\* ceil(n / k): the least c with c * k >= n
Ceil(n, k) == CHOOSE c \in 0..n : c * k >= n /\ \A b \in 0..(c - 1) : b * k < n

\* min(a, b)
Min(a, b) == IF a < b THEN a ELSE b

\* C10: after a successful assignment of n destinations to k trucks, truck
\* i (from 0) holds exactly the destinations at the sorted positions
\* [i*chunkSize, min((i+1)*chunkSize, n)) with chunkSize = ceil(n/k); a
\* truck whose start position is at or past n holds nothing.
C10_BandOfTruck ==
    Assigned =>
        LET n == Cardinality(AssignDests)
            k == Len(aTrucks)
            c == Ceil(n, k)
        IN \A i \in 0..(k - 1) :
              /\ DestsOn(i) = {d \in AssignDests :
                                  i * c <= Rank(d) /\ Rank(d) < Min((i + 1) * c, n)}
              /\ i * c >= n => aTrucks[i + 1].Packages = <<>>

\* C10 witness: four destinations have been assigned to three trucks, the
\* nearer-named destination being the farther one, and the third truck,
\* whose start position is 4, holds nothing.
C10_Witness ==
    /\ Assigned
    /\ Cardinality(AssignDests) = 4
    /\ Len(aTrucks) = 3
    /\ aDistances[1] > aDistances[2]
    /\ aTrucks[1].Packages # <<>>
    /\ aTrucks[3].Packages = <<>>

(***************************************************************************)
(* Claims about NearestNeighborRoute.                                      *)
(***************************************************************************)
\* the call has returned a plan
Planned == RReturned /\ rRet.hasPlan

\* the destinations of the truck's packages
TruckDests == {rTruck.Packages[i].Destination : i \in 1..Len(rTruck.Packages)}

\* the places of package id p in the stops of a plan: <<stop, position>>
StopsOf(plan, p) ==
    {x \in UNION {{<<i, j>> : j \in 1..Len(plan.Stops[i].PackageIDs)} :
                     i \in 1..Len(plan.Stops)} :
        plan.Stops[x[1]].PackageIDs[x[2]] = p}

\* C11: a returned plan has exactly one stop per distinct destination with
\* an assigned package and no other stop, and every assigned package id is
\* listed in exactly one stop, the stop of its destination.
C11_OneStopPerDestination ==
    Planned =>
        LET plan == rRet.plan
            pkgs == rTruck.Packages
        IN /\ \A d \in TruckDests :
                 Cardinality({i \in 1..Len(plan.Stops) : plan.Stops[i].Destination = d}) = 1
           /\ \A i \in 1..Len(plan.Stops) : plan.Stops[i].Destination \in TruckDests
           /\ \A j \in 1..Len(pkgs) :
                 /\ Cardinality(StopsOf(plan, pkgs[j].PackageID)) = 1
                 /\ \A x \in StopsOf(plan, pkgs[j].PackageID) :
                       plan.Stops[x[1]].Destination = pkgs[j].Destination

\* C11 witness: a plan of three stops has been returned for a truck with
\* four packages, two of them for one destination.
C11_Witness ==
    /\ Planned
    /\ Len(rRet.plan.Stops) = 3
    /\ Len(rTruck.Packages) = 4
    /\ \E i \in 1..3 : Len(rRet.plan.Stops[i].PackageIDs) = 2

\* the legs of a route: from the start to the first stop, then stop to stop
LegKeys(plan, start) ==
    [i \in 1..Len(plan.Stops) |->
        Key(IF i = 1 THEN start ELSE plan.Stops[i - 1].Destination,
            plan.Stops[i].Destination)]

\* the sum of f over the distances under the keys ks
RECURSIVE SumOver(_, _)
SumOver(ks, f) ==
    IF ks = <<>> THEN 0
    ELSE (IF f = "meters" THEN rDistances[Head(ks)].DistanceMeters
          ELSE rDistances[Head(ks)].DurationSeconds) + SumOver(Tail(ks), f)

\* the legs that count for the totals: those of the stops, and the leg from
\* the last stop back to the start when returnToStart is set
CountedLegs(plan, start) ==
    LegKeys(plan, start) \o
        (IF rReturnToStart /\ Len(plan.Stops) > 0
         THEN <<Key(plan.Stops[Len(plan.Stops)].Destination, start)>> ELSE <<>>)

\* C12: the totals of a returned plan are the sums of the distance and the
\* duration of the chosen legs, plus the leg from the last stop back to the
\* start exactly when returnToStart is set; the return leg emits no stop.
C12_TotalsAreLegSums ==
    Planned =>
        LET plan == rRet.plan
            legs == CountedLegs(plan, rTruck.StartLocation)
        IN /\ plan.TotalDistanceMeters = SumOver(legs, "meters")
           /\ plan.TotalDurationSeconds = SumOver(legs, "seconds")
           /\ Len(plan.Stops) = Cardinality(TruckDests)
           /\ \A i \in 1..Len(plan.Stops) :
                 plan.Stops[i].Destination # rTruck.StartLocation

\* C12 witness: a plan of two stops with a return leg has been returned.
C12_Witness ==
    /\ Planned
    /\ rReturnToStart
    /\ Len(rRet.plan.Stops) = 2
    /\ rRet.plan.TotalDistanceMeters >
          SumOver(LegKeys(rRet.plan, rTruck.StartLocation), "meters")

\* the nearest of the destinations S from `from`: least duration, then least
\* name; it is a function of the set, not of any order of it
Nearest(S, from) ==
    CHOOSE d \in S : \A e \in S \ {d} :
        \/ rDistances[Key(from, d)].DurationSeconds < rDistances[Key(from, e)].DurationSeconds
        \/ /\ rDistances[Key(from, d)].DurationSeconds = rDistances[Key(from, e)].DurationSeconds
           /\ StrLess(d, e)

\* the package ids of destination d, in loading order
IdsFor(d) ==
    LET at == SelectSeq([i \in 1..Len(rTruck.Packages) |-> i],
                        LAMBDA i : rTruck.Packages[i].Destination = d)
    IN [k \in 1..Len(at) |-> rTruck.Packages[at[k]].PackageID]

\* the route over S from `from` at time `at`, and whether every distance it
\* needs is present; a function of the call's arguments alone
RECURSIVE RouteOf(_, _, _)
RouteOf(S, from, at) ==
    IF S = {} THEN [ok |-> TRUE, stops |-> <<>>]
    ELSE IF \E d \in S : Key(from, d) \notin DOMAIN rDistances
    THEN [ok |-> FALSE, stops |-> <<>>]
    ELSE LET d == Nearest(S, from)
             arrive == at + rDistances[Key(from, d)].DurationSeconds
             rest == RouteOf(S \ {d}, d, arrive)
         IN [ok |-> rest.ok,
             stops |-> <<RouteStop(d, arrive, IdsFor(d))>> \o rest.stops]

\* the outcome the arguments determine: whether a plan is returned, and which
PlanOf ==
    LET route == RouteOf(TruckDests, rTruck.StartLocation, DepartAt)
        ss == route.stops
        back == IF rReturnToStart /\ ss # <<>>
                THEN <<Key(ss[Len(ss)].Destination, rTruck.StartLocation)>> ELSE <<>>
        legs == LegKeys([Stops |-> ss], rTruck.StartLocation) \o back
    IN IF ~route.ok THEN RReturnErr("missing", StrEmpty)
       ELSE IF \E i \in 1..Len(back) : back[i] \notin DOMAIN rDistances
       THEN RReturnErr("missing return", StrEmpty)
       ELSE RReturnPlan(RoutePlan(rTruck.TruckID, DepartAt, ss,
                                  SumOver(legs, "seconds"), SumOver(legs, "meters")))

\* C13: the planner is deterministic: whether a plan is returned, its stop
\* order, the package ids of each stop and its totals are a function of the
\* distance values and the packages, whatever order the maps are ranged in.
C13_Deterministic ==
    RReturned =>
        /\ rRet.hasPlan = PlanOf.hasPlan
        /\ rRet.hasPlan => rRet.plan = PlanOf.plan

\* C13 witness: a plan has been returned after a step that chose between two
\* remaining destinations of equal duration from the current location.
C13_Witness ==
    /\ Planned
    /\ \E k \in 1..Len(picks) : \E d, e \in picks[k].among :
          /\ d # e
          /\ rDistances[Key(picks[k].from, d)].DurationSeconds =
                rDistances[Key(picks[k].from, e)].DurationSeconds
          /\ rRet.plan.Stops[k].Destination = d

\* C14: at every step of the loop the next stop is the remaining destination
\* of minimum DurationSeconds from the current location, and among those
\* that tie on the minimum the lexicographically smallest.
C14_NearestThenSmallestName ==
    \A k \in 1..Len(stops) :
        LET from == picks[k].from
            among == picks[k].among
            d == stops[k].Destination
            dur(e) == rDistances[Key(from, e)].DurationSeconds
        IN /\ from = (IF k = 1 THEN rTruck.StartLocation ELSE stops[k - 1].Destination)
           /\ among = TruckDests \ {stops[j].Destination : j \in 1..(k - 1)}
           /\ d \in among
           /\ \A e \in among : dur(d) <= dur(e)
           /\ \A e \in among : dur(e) = dur(d) => (e = d \/ StrLess(d, e))

\* C14 witness: the second stop was chosen among remaining destinations two
\* of which tie on the minimum duration, and it is the one of smaller name.
C14_Witness ==
    /\ Len(stops) >= 2
    /\ \E e \in picks[2].among \ {stops[2].Destination} :
          /\ rDistances[Key(picks[2].from, e)].DurationSeconds =
                rDistances[Key(picks[2].from, stops[2].Destination)].DurationSeconds
          /\ StrLess(stops[2].Destination, e)

\* the call of the worked example: one package each at A, B and C, the six
\* legs of the example, the truck starting at HUB, no return leg
IsExample ==
    /\ rTruck = ExampleTruck
    /\ rDistances = ExampleDistances
    /\ ~rReturnToStart

\* C15: in the worked example the planner visits A, then C, then B, with a
\* total duration of 780 s and a total distance of 2600 m.
C15_WorkedExample ==
    (IsExample /\ RReturned) =>
        /\ rRet.hasPlan
        /\ [i \in 1..Len(rRet.plan.Stops) |-> rRet.plan.Stops[i].Destination] =
              << <<"A">>, <<"C">>, <<"B">> >>
        /\ rRet.plan.TotalDurationSeconds = 780
        /\ rRet.plan.TotalDistanceMeters = 2600

\* C15 witness: the call of the worked example has returned.
C15_Witness ==
    /\ IsExample
    /\ RReturned
    /\ Len(stops) = 3

\* C16: for a truck without packages the planner returns a plan with no
\* stop and zero totals, for either value of returnToStart, and consults no
\* distance.
C16_EmptyTruckEmptyPlan ==
    (RReturned /\ Len(rTruck.Packages) = 0) =>
        /\ rRet.hasPlan
        /\ rRet.plan.Stops = <<>>
        /\ rRet.plan.TotalDistanceMeters = 0
        /\ rRet.plan.TotalDurationSeconds = 0
        /\ rLookups = {}

\* C16 witness: a call with returnToStart set has returned for a truck
\* without packages, the distance map holding legs.
C16_Witness ==
    /\ RReturned
    /\ Len(rTruck.Packages) = 0
    /\ rReturnToStart
    /\ DOMAIN rDistances # {}

(***************************************************************************)
(* Claims about the capacity of a truck.                                   *)
(***************************************************************************)
\* C17: after any sequence of Load, LoadMultiple and Clear on a truck, and
\* at every point of AssignPackagesByDistance, no truck holds more packages
\* than its Capacity; a Load on a truck at capacity returns an error and
\* leaves the truck's package list as it was.
C17_NeverOverCapacity ==
    /\ Len(tTruck.Packages) <= tTruck.Capacity
    /\ \A i \in 1..Len(aTrucks) : Len(aTrucks[i].Packages) <= aTrucks[i].Capacity
    /\ (tOp = "Load" /\ Len(tBefore) >= tTruck.Capacity) =>
          (tErr = "full" /\ tTruck.Packages = tBefore)
    /\ (tOp = "Load" /\ Len(tBefore) < tTruck.Capacity) =>
          (tErr = "nil" /\ Len(tTruck.Packages) = Len(tBefore) + 1)

\* C17 witness: a Load was called on a truck at capacity, as the last of
\* MaxOps operations, and returned the error.
C17_Witness ==
    /\ tOp = "Load"
    /\ tOps = MaxOps
    /\ tTruck.Capacity = 1
    /\ Len(tBefore) = tTruck.Capacity
    /\ tErr = "full"

\* the packages of band i in loading order: those of its destinations, in
\* the sorted order of the destinations
RECURSIVE Wanted(_, _)
Wanted(from, to) ==
    IF from >= to THEN <<>>
    ELSE pkgDest(aDestinations[from + 1]) \o Wanted(from + 1, to)

WantedBy(i) ==
    Wanted(Min((i - 1) * chunkSize, nDests), Min(i * chunkSize, nDests))

\* C18: when loading a package would exceed the capacity of the truck that
\* owns the band of its destination, AssignPackagesByDistance returns an
\* error naming that truck; the package and those after it are on no truck,
\* whatever room the other trucks have.
C18_FailFastNoSpillover ==
    (apc = "done" /\ aErr.kind = "load") =>
        LET full == CHOOSE i \in 1..nTrucks :
                        Len(WantedBy(i)) > aTrucks[i].Capacity /\
                        \A j \in 1..(i - 1) : Len(WantedBy(j)) <= aTrucks[j].Capacity
        IN /\ aErr.truck = aTrucks[full].TruckID
           /\ \A j \in 1..(full - 1) : aTrucks[j].Packages = WantedBy(j)
           /\ aTrucks[full].Packages = SubSeq(WantedBy(full), 1, aTrucks[full].Capacity)
           /\ \A j \in (full + 1)..nTrucks : aTrucks[j].Packages = <<>>

\* C18 witness: the call failed on the second truck while the first truck
\* and the third had room.
C18_Witness ==
    /\ apc = "done"
    /\ aErr = ErrTruck(2)
    /\ nTrucks = 3
    /\ Len(aTrucks[1].Packages) < aTrucks[1].Capacity
    /\ aTrucks[3].Packages = <<>>

(***************************************************************************)
(* Claims about PlanDeliveries.                                            *)
(***************************************************************************)
\* the call has returned without error
PlanSucceeded == PReturned /\ pRet.err = "nil"

\* the returned plans are those of the trucks 1..TruckCount in order, the
\* plan of a truck without packages having no stop and zero totals
OnePlanPerTruck ==
    /\ Len(pRet.plans) = pTruckCount
    /\ \A i \in 1..Len(pRet.plans) :
          /\ pRet.plans[i].TruckID = i
          /\ i \in 1..Len(pTrucks) /\ pTrucks[i].TruckID = i
          /\ pTrucks[i].Packages = <<>> =>
                /\ pRet.plans[i].Stops = <<>>
                /\ pRet.plans[i].TotalDistanceMeters = 0
                /\ pRet.plans[i].TotalDurationSeconds = 0

\* C19 (as amended): a successful PlanDeliveries call returns no plan when
\* the repository holds no package, and otherwise exactly TruckCount plans,
\* one per truck in truck order (ids 1..TruckCount), a truck that received
\* no package contributing a plan without stops and with zero totals.
C19_OnePlanPerTruckUnlessEmpty ==
    PlanSucceeded =>
        IF Len(pPkgs) = 0 THEN pRet.hasPlans /\ pRet.plans = <<>>
        ELSE OnePlanPerTruck

\* C19 witness: a call for two trucks has succeeded, the first truck with
\* stops and the second without packages.
C19_Witness ==
    /\ PlanSucceeded
    /\ pTruckCount = 2
    /\ Len(pRet.plans) = 2
    /\ Len(pRet.plans[1].Stops) > 0
    /\ pTrucks[2].Packages = <<>>

\* C19 as stated: every successful PlanDeliveries call returns exactly
\* TruckCount plans, one per truck in truck order.
C19_AlwaysTruckCountPlans == PlanSucceeded => OnePlanPerTruck

\* some package of the repository has an empty or whitespace-only destination
HasBlank == \E i \in 1..Len(pPkgs) : TrimSpace(pPkgs[i].Destination) = StrEmpty

\* C20: when the package source returns an error or some package has an
\* empty or whitespace-only destination, PlanDeliveries goes no further
\* than the listing: it makes no call of the distance resolver and returns
\* an error and no plan.
C20_FailsBeforeResolver ==
    (pRepoErr \/ HasBlank) =>
        /\ ppc \in {"call", "done"}
        /\ resolverCalls = 0
        /\ PReturned => (pRet.err # "nil" /\ ~pRet.hasPlans /\ pRet.plans = <<>>)

\* C20 witness: the call has returned for a repository that lists its
\* packages without error, the last of them with a destination of one space
\* after packages with proper destinations.
C20_Witness ==
    /\ PReturned
    /\ ~pRepoErr
    /\ Len(pPkgs) > 1
    /\ pPkgs[Len(pPkgs)].Destination = StrBlank
    /\ pRet.err = "empty destination"

(***************************************************************************)
(* Claims about the caches of GetDistances.                                *)
(***************************************************************************)
\* C21: when the read of the distance cache or of the geocode cache fails,
\* GetDistances returns an error and no map, and issues no upstream request
\* after the failed read.
C21_ReadFailureAborts ==
    /\ "distance read" \in cacheFaults =>
          /\ gRet = GReturnErr("distance cache")
          /\ GReturned
          /\ geocodeSent = 0 /\ matrixSent = <<>>
    /\ "geocode read" \in cacheFaults =>
          /\ gRet = GReturnErr("geocode cache")
          /\ GReturned
          /\ geocodeSent = 0 /\ matrixSent = <<>>

\* C21 witness: the read of the geocode cache failed, after a read of the
\* distance cache that answered one of two destinations.
C21_Witness ==
    /\ "geocode read" \in cacheFaults
    /\ Cardinality(DOMAIN destinationHits) = 1
    /\ Cardinality(RequestedKeys) = 2

\* what the matrix service reports now for the destination d from o
FreshResult(o, d) ==
    LET from == CoordsToList(Geocoder(o))
        to == CoordsToList(Geocoder(d))
    IN DistanceResult(DistanceMetric(from, to, 1), DurationMetric(from, to, 1))

\* the complete result of the call: for every requested key the cached value
\* where the cache had one when the call began, else the fetched one
CompleteResult ==
    [d \in RequestedKeys |->
        IF <<normOrigin, d>> \in DOMAIN cacheAtCall.distance
        THEN cacheAtCall.distance[<<normOrigin, d>>]
        ELSE FreshResult(normOrigin, d)]

\* the errors that do not come from a cache
UpstreamErrors ==
    {"geocode", "missing coordinate", "matrix request", "rows", "row length",
     "invalid metrics", "not returned"}

\* C22: a failed write-back to the geocode cache or to the distance cache
\* is never returned to the caller: the call goes on, and where the
\* distances were written back to a failing cache it returns the complete
\* result, every cache hit and every fetched value.
C22_WriteFailureSwallowed ==
    /\ "geocode write" \in cacheFaults =>
          /\ gpc \in {"matrix", "distancePut", "done"}
          /\ GReturned => (gRet = GReturnMap(CompleteResult) \/ gRet.err \in UpstreamErrors)
    /\ "distance write" \in cacheFaults =>
          /\ GReturned
          /\ gRet = GReturnMap(CompleteResult)

\* C22 witness: both write-backs failed and the call returned a map with a
\* cached and a fetched destination.
C22_Witness ==
    /\ cacheFaults = {"geocode write", "distance write"}
    /\ GReturned
    /\ gRet.hasMap
    /\ Cardinality(DOMAIN destinationHits) = 1
    /\ Cardinality(DOMAIN fetched) = 1

\* the requested keys the distance cache answered, and those it did not
HitKeys == {d \in RequestedKeys : <<normOrigin, d>> \in DOMAIN cacheAtCall.distance}

MissKeys == RequestedKeys \ HitKeys

\* C29: when some requested destinations hit the distance cache and others
\* miss, at most one matrix request is issued and its destination list is
\* exactly the misses, each once, without any hit and without the origin; a
\* call that returns a map has issued it, and returns the cached value of
\* every hit and the fetched value of every miss.
C29_OneRequestForTheMisses ==
    (HitKeys # {} /\ MissKeys # {}) =>
        /\ Len(matrixSent) <= 1
        /\ \A k \in 1..Len(matrixSent) :
              /\ SeqToSet(matrixSent[k]) = MissKeys
              /\ Len(matrixSent[k]) = Cardinality(MissKeys)
              /\ normOrigin \notin SeqToSet(matrixSent[k])
        /\ (GReturned /\ gRet.hasMap) =>
              /\ Len(matrixSent) = 1
              /\ \A d \in HitKeys : gRet.out[d] = cacheAtCall.distance[<<normOrigin, d>>]
              /\ \A d \in MissKeys : gRet.out[d] = FreshResult(normOrigin, d)
              /\ DOMAIN gRet.out = HitKeys \cup MissKeys

\* C29 witness: of two destinations requested in other spellings than the
\* normalised one, one was cached and one was fetched, and the map was
\* returned.
C29_Witness ==
    /\ GReturned /\ gRet.hasMap
    /\ Cardinality(HitKeys) = 1 /\ Cardinality(MissKeys) = 1
    /\ \E i \in 1..Len(gDests) : gDests[i] \notin RequestedKeys
    /\ Len(matrixSent) = 1

\* the errors of a matrix fetch that failed or whose answer was rejected
MatrixErrors == {"matrix request", "rows", "row length", "invalid metrics", "not returned"}

\* C30: when the matrix fetch fails or its answer is malformed or
\* incomplete, GetDistances returns an error and the distance cache is as
\* it was; distances are written back only once the answer covers every
\* miss with a value.
C30_CacheUntouchedOnBadMatrix ==
    /\ gRet.err \in MatrixErrors =>
          /\ ~gRet.hasMap
          /\ distanceCache = cacheAtCall.distance
          /\ cachePuts.distance = 0
    /\ (cachePuts.distance > 0 \/ gpc = "distancePut") =>
          /\ DOMAIN fetched = SeqToSet(destinationMisses)
          /\ \A d \in DOMAIN fetched : fetched[d] = FreshResult(normOrigin, d)

\* C30 witness: an answer with a null entry was rejected, the distance
\* cache holding an entry of the origin.
C30_Witness ==
    /\ GReturned
    /\ gRet.err = "invalid metrics"
    /\ distanceCache # NoMap
    /\ Len(matrixSent) = 1

\* C27: warm run: when a call returned a map and its write-backs succeeded,
\* the same call repeated issues no geocode and no matrix request, and, its
\* read of the distance cache succeeding, returns the same map.
C27_WarmRun ==
    (gCall = 2 /\ gPrev.faults \cap {"geocode write", "distance write"} = {}) =>
        /\ geocodeSent = 0
        /\ matrixSent = <<>>
        /\ GReturned => (gRet = gPrev.ret \/ gRet = GReturnErr("distance cache"))

\* C27 witness: the repeated call returned the map of the first call, in
\* which one destination had come from the cache and one from the matrix
\* service.
C27_Witness ==
    /\ gCall = 2
    /\ gPrev.faults = {}
    /\ GReturned
    /\ gRet = gPrev.ret
    /\ \E d, e \in DOMAIN gRet.out :
          /\ gRet.out[d] = FreshResult(normOrigin, d)
          /\ gRet.out[e] = CachedResult(normOrigin, e)

(***************************************************************************)
(* Claims about the backoff of doWithRetry.                                *)
(***************************************************************************)
\* the backoff waits of a call that used its whole budget, in milliseconds
BackoffSchedule == <<200, 400, 800>>

\* C28: a doWithRetry call makes at most 4 attempts and at most 3 backoff
\* waits; its waits are 200ms, 400ms and 800ms in that order, one before each
\* attempt after the first, and it starts no wait after its fourth attempt.
C28_BackoffSchedule ==
    \A w \in destinations :
        /\ sent[w] <= 4
        /\ Len(hist[w]) <= 4
        /\ attempt[w] <= 4
        /\ Len(waits[w]) <= 3
        /\ waits[w] = SubSeq(BackoffSchedule, 1, Len(waits[w]))
        /\ attempt[w] >= 1 => Len(waits[w]) = attempt[w] - 1
        /\ pc[w] = "backoff" => attempt[w] < 4
        /\ Len(hist[w]) = 4 => pc[w] # "backoff"

\* C28 witness: a call failed on its fourth attempt, having waited 200ms,
\* 400ms and 800ms, and returned without another wait.
C28_Witness ==
    \E w \in destinations :
        /\ Len(hist[w]) = 4
        /\ sent[w] = 4
        /\ waits[w] = BackoffSchedule
        /\ resolved[w] = "fail"

(***************************************************************************)
(* Claims about the sizes of the bands of AssignPackagesByDistance.        *)
(***************************************************************************)
\* the size of band i of n destinations in chunks of c
BandSize(i, n, c) ==
    IF (i - 1) * c >= n THEN 0
    ELSE IF i * c > n THEN n - (i - 1) * c ELSE c

\* C26 as stated: after a successful assignment, the numbers of destinations
\* of any two trucks differ by at most one.
C26_DifferByAtMostOne ==
    Assigned =>
        \A i, j \in 1..nTrucks :
            Cardinality(DestsOn(i - 1)) - Cardinality(DestsOn(j - 1)) <= 1

\* C26, the bands the code makes: after a successful assignment of n
\* destinations to k trucks,
\* with c the least integer not below n/k, truck i carries the destinations
\* of band i, which number c while i*c <= n, the remainder n - (i-1)*c for
\* the band that c does not fill, and none after it; every destination is on
\* exactly one truck and no truck carries more than c.
C26_BandSizes ==
    Assigned =>
        LET c == Ceil(nDests, nTrucks) IN
        /\ \A i \in 1..nTrucks :
              /\ Cardinality(DestsOn(i - 1)) = BandSize(i, nDests, c)
              /\ Cardinality(DestsOn(i - 1)) <= c
        /\ UNION {DestsOn(i - 1) : i \in 1..nTrucks} =
              {aDestinations[x] : x \in 1..nDests}
        /\ \A i, j \in 1..nTrucks : i # j => DestsOn(i - 1) \cap DestsOn(j - 1) = {}

\* C26 witness: four destinations were assigned to three trucks as two, two
\* and none.
C26_Witness ==
    /\ Assigned
    /\ nDests = 4
    /\ nTrucks = 3
    /\ Cardinality(DestsOn(0)) = 2
    /\ Cardinality(DestsOn(1)) = 2
    /\ Cardinality(DestsOn(2)) = 0

(***************************************************************************)
(* Claims about Truck.ApplyPlan.                                           *)
(***************************************************************************)
\* the stops of the applied plan that list package id p
StopsListing(p) ==
    {i \in 1..Len(apPlan.Stops) : p \in SeqToSet(apPlan.Stops[i].PackageIDs)}

\* the greatest element of a non-empty set of numbers
Greatest(S) == CHOOSE x \in S : \A y \in S : y <= x

\* C24: after ApplyPlan with a plan whose TruckID is the truck's, every
\* loaded package has LoadedAt equal to the plan's DepartAt; a loaded package
\* listed in a stop has DeliveredAt equal to the ArriveAt of that stop (of
\* the last such stop when several list it); a loaded package listed in no
\* stop has no DeliveredAt, whatever it had before the call.
C24_ApplyPlanTimestamps ==
    (apState \in {"applied", "again"} /\ apPlan.TruckID = apTruck.TruckID) =>
        /\ apErr = "nil"
        /\ Len(apTruck.Packages) = Len(apBefore)
        /\ \A i \in 1..Len(apTruck.Packages) :
              LET pkg == apTruck.Packages[i] IN
              /\ pkg.PackageID = apBefore[i].PackageID
              /\ pkg.LoadedAt = apPlan.DepartAt
              /\ StopsListing(pkg.PackageID) # {} =>
                    pkg.DeliveredAt =
                        apPlan.Stops[Greatest(StopsListing(pkg.PackageID))].ArriveAt
              /\ StopsListing(pkg.PackageID) = {} => pkg.DeliveredAt = NilTime

\* C24 witness: a second plan was applied to a truck whose packages 1, 2
\* and 3 had been loaded at another time, 1 and 2 of them delivered; it
\* lists package 2 only, so that package 1 is no longer delivered.
C24_Witness ==
    /\ apState = "again"
    /\ apErr = "nil"
    /\ Len(apBefore) = 3
    /\ Len(apPlan.Stops) = 1
    /\ apBefore[1].DeliveredAt # NilTime
    /\ apBefore[2].DeliveredAt # NilTime
    /\ apBefore[1].LoadedAt # apPlan.DepartAt
    /\ apTruck.Packages[1].DeliveredAt = NilTime
    /\ apTruck.Packages[2].DeliveredAt = apPlan.Stops[1].ArriveAt
    /\ apTruck.Packages[3].DeliveredAt = NilTime

(***************************************************************************)
(* Claims about the responses of POST /plans.                              *)
(***************************************************************************)
\* the errors of PlanDeliveries that wrap an error of the distance provider:
\* what a resolver call returns when OpenRouteService kept answering with
\* transient errors until the attempts of doWithRetry were spent
ProviderErrors == {"hub distance", "pairwise distance"}

\* C25 as stated: a request whose planning failed on an error of the
\* distance provider, as it does while OpenRouteService is unavailable, is
\* answered with HTTP status 503.
C25_Unavailable503 ==
    (hpc = "responded" /\ pRet.err \in ProviderErrors) =>
        hStatus = StatusServiceUnavailable

\* C25, what the handler does: every error of PlanDeliveries, those of the
\* distance provider included, is answered with status 500, and only a
\* call that returned plans with 200.
C25_PlanErrors500 ==
    (hpc = "responded" /\ ppc = "done") =>
        /\ pRet.err # "nil" => hStatus = StatusInternalServerError
        /\ pRet.err = "nil" => hStatus = StatusOK

\* C25 witness: the pairwise fan-out failed on a provider error and the
\* request was answered with 500.
C25_Witness ==
    /\ hpc = "responded"
    /\ pRet.err = "pairwise distance"
    /\ hStatus = StatusInternalServerError

(***************************************************************************)
(* Claims about concurrent PutMany calls.                                  *)
(***************************************************************************)
\* C23: after any sequence and interleaving of PutMany calls, the table of
\* the distance cache holds at most one row per (origin, destination), that
\* of the geocode cache at most one row per address, there is a row for
\* every key a committed call wrote, and its value is the one the last
\* committed call wrote under that key.
C23_UpsertLastCommitted ==
    /\ \A r, q \in sTable : r.key = q.key => r = q
    /\ {r.key : r \in sTable} = DOMAIN sLast
    /\ \A r \in sTable : r.value = sLast[r.key]

\* C23 witness: two calls that were open at the same time wrote the same
\* key with different values and both committed; the table has one row for
\* the key.
C23_Witness ==
    \E w, v \in DOMAIN sTx :
        /\ w # v
        /\ sTx[w].pc = "committed"
        /\ sTx[v].pc = "committed"
        /\ sTx[w].contended
        /\ sTx[w].value # sTx[v].value
        /\ \E k \in SeqToSet(sTx[w].done) \cap SeqToSet(sTx[v].done) :
              Cardinality({r \in sTable : r.key = k}) = 1

(***************************************************************************)
(* Claims about the pairwise map of the fan-out.                           *)
(***************************************************************************)
\* every origin worker's resolver call returned a map covering its targets
AllOriginsSucceeded == \A w \in destinations : resolved[w] = "full"

\* the ordered pairs of different locations among the hub and the
\* destinations
OrderedPairs == {k \in hubAndDests \X hubAndDests : k[1] # k[2]}

\* C31: when PlanDeliveries has drained the channel after a fan-out in which
\* every origin worker succeeded (the hub lookup having succeeded before
\* it), the pairwise map has an entry for every ordered pair of different
\* locations among the hub and the destinations, and no other entry; the
\* plans are routed from that map, and are returned unless a package is
\* stored with whitespace around its destination.
C31_EveryOrderedPair ==
    (Returned /\ AllOriginsSucceeded) =>
        /\ DOMAIN pairwiseDist = OrderedPairs
        /\ ret.hasPlans => DOMAIN ret.plansFrom = OrderedPairs
        /\ ~padded => ret.hasPlans

\* C31 witness: the request returned plans after all NumDests origins
\* succeeded, the map holding NumDests * (NumDests + 1) entries.
C31_Witness ==
    /\ Returned
    /\ AllOriginsSucceeded
    /\ Cardinality(DOMAIN pairwiseDist) = NumDests * (NumDests + 1)

(***************************************************************************)
(* Claims about the order of the merge.                                    *)
(***************************************************************************)
\* the ordered pairs of different locations among the hub and the names S
PairsOf(S) == {p \in ({StrHub} \cup S) \X ({StrHub} \cup S) : p[1] # p[2]}

\* different pairs have different keys
KeysDistinct(S) ==
    \A p, q \in PairsOf(S) : Key(p[1], p[2]) = Key(q[1], q[2]) => p = q

\* the map with the provider's distance of its pair under every key
MapOfPairs(S) ==
    [k \in {Key(p[1], p[2]) : p \in PairsOf(S)} |->
        LET p == CHOOSE q \in PairsOf(S) : Key(q[1], q[2]) = k
        IN PairResult(p[1], p[2])]

\* the map merged from the results read in ascending order of the origins
RECURSIVE MergedFrom(_, _, _)
MergedFrom(m, order, S) ==
    IF order = <<>> THEN m
    ELSE MergedFrom(KeyedMerge(m, OriginResult(Head(order), S), S), Tail(order), S)

\* C35 as stated: when every origin succeeded, the merged pairwise map is
\* the same for every order in which the results were read: it is the map
\* merged from the results in ascending order of the origins.
C35_SameForEveryOrder ==
    mState = "done" => mMap = MergedFrom(HubKeyed(mNames), Ascending(mNames), mNames)

\* C35 amended: when every origin succeeded and the keys origin+"|"+target
\* of different pairs of locations are different, the merged map holds the
\* provider's distance of every ordered pair under the key of the pair,
\* whatever the order in which the results were read.
C35_OrderIrrelevantForDistinctKeys ==
    (mState = "done" /\ KeysDistinct(mNames)) => mMap = MapOfPairs(mNames)

\* C35 witness: the results of three destinations with distinct keys were
\* merged in descending order of the origins.
C35_Witness ==
    /\ mState = "done"
    /\ mNames = {<<"A">>, <<"B", "|", "C">>, <<"C">>}
    /\ KeysDistinct(mNames)
    /\ mMap = MapOfPairs(mNames)


\* ---- Claims about the lookups of the planner in the pairwise map ----

\* every package of the repository is stored with its destination trimmed
StoredTrimmed ==
    \A i \in 1..Len(pPkgs) : pPkgs[i].Destination = TrimSpace(pPkgs[i].Destination)

\* NearestNeighborRoute has failed for a missing distance or return leg
MissingDistance == rRet.err \in {"missing", "missing return"}

\* C32 as stated: after a successful hub lookup and pairwise resolution,
\* NearestNeighborRoute never fails with a missing-distance error, however
\* the non-empty destinations of the packages are stored, padded or not.
C32_NeverMissingDistance == ~MissingDistance

\* C32 (as amended): when every package is stored with a trimmed, non-empty
\* destination, the planner called by PlanDeliveries after a successful hub
\* lookup and pairwise resolution never fails with a missing-distance
\* error, for a leg or for the return leg; and whenever it does fail so,
\* the destination it could not find is one stored with surrounding
\* whitespace, which the pairwise map holds under its trimmed name only.
C32_NoMissingDistanceWhenTrimmed ==
    /\ StoredTrimmed => ~MissingDistance
    /\ rRet.err = "missing" =>
          /\ rRet.to # TrimSpace(rRet.to)
          /\ Key(StrHub, TrimSpace(rRet.to)) \in DOMAIN pPairwiseDist
          /\ Key(StrHub, rRet.to) \notin DOMAIN pPairwiseDist

\* C32 witness: a call over trimmed destinations has succeeded with a
\* truck that made two stops and came back to the hub, every lookup of the
\* planner, the return leg included, having found its distance.
C32_Witness ==
    /\ PlanSucceeded
    /\ StoredTrimmed
    /\ pReturnToStart
    /\ \E i \in 1..Len(pRet.plans) : Len(pRet.plans[i].Stops) >= 2


\* ---- Claims about the error the fan-out returns ----

\* the origins whose resolver call failed on its own
OwnFailures == {w \in destinations : resolved[w] = "fail"}

\* the origins whose resolver call ended with the context's error
Aborted == {w \in destinations : resolved[w] = "canceled"}

\* C33: when the caller's context is not cancelled and some origin worker
\* failed on its own, the error PlanDeliveries returns is never the
\* context-cancelled error of an aborted sibling: every failing worker has
\* enqueued its result before it cancels, so the first error read from the
\* queue, the one kept and returned, is that of a worker that failed on its
\* own (a result without the hub read before it ends the call with the
\* missing pairwise distance error instead).
C33_OwnErrorNotSiblingsAbort ==
    ctxDone # "caller" =>
        /\ pairwiseErr # "canceled"
        /\ \A i \in 1..Len(resultsCh) :
              resultsCh[i].err = "canceled" =>
                 \/ pairwiseErr = "fail"
                 \/ \E j \in 1..(i - 1) : resultsCh[j].err = "fail"
        /\ (Returned /\ OwnFailures # {}) =>
              /\ ret.err \in {"fail", "missing"}
              /\ ret.err = "missing" => \E w \in destinations : resolved[w] = "partial"

\* C33 witness: the call has returned the error of a worker that failed on
\* its own although a sibling, aborted by the cancellation that worker
\* tripped, had sent the context's error too; the caller never cancelled.
C33_Witness ==
    /\ Returned
    /\ ctxDone = "worker"
    /\ OwnFailures # {}
    /\ Aborted # {}
    /\ ret.err = "fail"


\* ---- Claims about the termination of the fan-out ----

\* the number of workers at position p
At(p) == Cardinality({w \in destinations : pc[w] = p})

\* the steps the worker goroutines have before them, the send counted twice
WorkerSteps ==
    7 * At("unborn") + 6 * At("queued") + 5 * At("resolving") + 3 * At("cancelling")
        + 2 * At("releasing") + At("finishing")

\* the positions PlanDeliveries has before it
MainRank ==
    CASE pcMain = "dispatch" -> 4
      [] pcMain = "wait" -> 3
      [] pcMain = "close" -> 2
      [] pcMain = "merge" -> 1
      [] OTHER -> 0

\* a bound on the steps left of the fan-out: those of the workers and of
\* PlanDeliveries, and the results still to be read
StepsLeft == WorkerSteps + MainRank + Len(resultsCh)

\* C34: with every resolver call returning and under fair scheduling the
\* pairwise fan-out terminates, also after a cancellation: every step of a
\* goroutine lowers a bound on the steps left, and until PlanDeliveries has
\* returned some goroutine can step (a worker waits for a slot only while
\* workers that can step hold them all), so that under the fairness of
\* SpecLive every dispatched worker acquires a slot, sends its one result (the channel has
\* room for it whenever it sends), releases its slot and ends, and
\* PlanDeliveries returns after its wait, all slots free and one result
\* sent per worker.
C34_FanOutTerminates ==
    /\ [][StepsLeft' < StepsLeft]_vars
    /\ [](~Returned => ENABLED LiveNext)
    /\ [](\A w \in LiveDests :
             /\ pc[w] = "resolving" => Len(resultsCh) < ResultsCap
             /\ pc[w] = "queued" /\ semLen = SemCap =>
                   \E v \in LiveDests : pc[v] \in {"resolving", "cancelling", "releasing"})
    /\ [](pcMain \in {"close", "merge", "done"} =>
             /\ semLen = 0 /\ wg = 0
             /\ \A w \in LiveDests : pc[w] = "done" /\ resolved[w] # "none")
    /\ [](Returned => StepsLeft = 0)

\* C34 witness: the call of more origins than slots has returned after a
\* cancellation tripped by a failed worker, every worker done.
C34_Witness ==
    /\ Returned
    /\ Cardinality(destinations) > SemCap
    /\ ctxDone = "worker"
    /\ \A w \in destinations : pc[w] = "done"


\* ---- Claims about the fan-out of geocodeMany ----

\* C36: within one geocodeMany call at most 5 geocode requests are in
\* flight at any moment, for every number of addresses and under every
\* interleaving: the requests in flight are those of goroutines that hold
\* a slot of the semaphore, whose length counts them and never exceeds 5.
C36_AtMostFiveInFlight ==
    /\ Cardinality(GeoInFlight) <= GeoSemCap
    /\ GeoInFlight \subseteq GeoSlotHolders
    /\ Cardinality(GeoSlotHolders) = gmSem
    /\ gmSem <= GeoSemCap

\* C36 witness: five requests are in flight while a further goroutine
\* waits for a slot.
C36_Witness ==
    /\ Cardinality(GeoInFlight) = GeoSemCap
    /\ \E a \in DOMAIN gmPc : gmPc[a] = "queued"


\* ---- Claims about the atomicity of PutMany ----

\* the step is a step of the PutMany call of w
StepOf(w) == sTx'[w] # sTx[w]

\* the rows of the keys of K with the value v
BatchRows(K, v) == {[key |-> k, value |-> v] : k \in K}

\* what the steps of one PutMany call do to the table: the call commits
\* nothing before its commit, a call that fails leaves the table as it is,
\* a call with a blank key fails, and the commit puts the rows of every key
\* of the call in the table and changes no other row
AtomicStep(w) ==
    /\ (StepOf(w) /\ sTx'[w].pc \in {"open", "failed"}) => sTable' = sTable
    /\ (StepOf(w) /\ sTx'[w].pc = "committed") =>
          LET K == SeqToSet(sTx[w].done) IN
          /\ sTx[w].todo = <<>>
          /\ \A k \in K : ~BlankKey(k)
          /\ BatchRows(K, sTx[w].value) \subseteq sTable'
          /\ {r \in sTable' : r.key \notin K} = {r \in sTable : r.key \notin K}
          /\ \A r, q \in sTable' : r.key = q.key => r = q
    /\ (sTx[w].pc = "open" /\ \E i \in 1..Len(sTx[w].todo) : BlankKey(sTx[w].todo[i])) =>
          sTx'[w].pc # "committed"

\* a GetMany has read, for the keys it asked, the rows of the calls
\* committed before it and nothing else
ReadsCommitted ==
    sRead.rows = {[key |-> k, value |-> sRead.last[k]] : k \in sRead.keys \cap DOMAIN sRead.last}

\* C37: each PutMany is atomic. A call that fails part-way (at a blank
\* key, a failed statement or a failed commit) commits none of its entries
\* and leaves the table as it was, a successful call commits all of its
\* entries in one step, and a GetMany that runs next to the calls reads
\* whole batches only: the rows of the calls committed before it.
C37_PutManyAtomic ==
    /\ [][\A w \in DOMAIN sTx : AtomicStep(w)]_vars
    /\ [](ReadsCommitted /\ sTable = {[key |-> k, value |-> sLast[k]] : k \in DOMAIN sLast})

\* C37 witness: a PutMany that has written a row stands at a blank key, the
\* error of which will roll it back, while a GetMany has read the whole
\* batch of two rows another call committed and none of the open call.
C37_Witness ==
    \E w \in DOMAIN sTx :
        /\ sTx[w].pc = "open"
        /\ sTx[w].done # <<>>
        /\ sTx[w].todo # <<>>
        /\ BlankKey(Head(sTx[w].todo))
        /\ Cardinality(sRead.rows) = 2
        /\ \A r \in sRead.rows : r.value # sTx[w].value
        /\ sRead.rows = sTable


\* ---- Claims about the arrival times of a plan ----

\* the duration of leg k of the stop sequence ss: from the start location
\* or the stop before to stop k
LegDuration(ss, k) ==
    rDistances[Key(IF k = 1 THEN rTruck.StartLocation ELSE ss[k - 1].Destination,
                   ss[k].Destination)].DurationSeconds

\* the sum of the durations of the legs 1 to k
RECURSIVE SumLegs(_, _)
SumLegs(ss, k) == IF k = 0 THEN 0 ELSE SumLegs(ss, k - 1) + LegDuration(ss, k)

\* the duration of the return leg of a returned plan, 0 without one
ReturnLegDuration ==
    IF rReturnToStart /\ stops # <<>>
    THEN rDistances[Key(stops[Len(stops)].Destination, rTruck.StartLocation)].DurationSeconds
    ELSE 0

\* C38: in every plan the planner returns (and all along its loop) the
\* ArriveAt of the k-th stop is DepartAt plus the sum of the durations of
\* legs 1 to k, so that arrival times never decrease along the stops, the
\* durations being non-negative; the return leg adds to the total duration
\* only and changes no stop's ArriveAt.
C38_ArriveAtIsDepartPlusLegs ==
    /\ \A k \in 1..Len(stops) : stops[k].ArriveAt = DepartAt + SumLegs(stops, k)
    /\ \A k \in 2..Len(stops) : stops[k - 1].ArriveAt <= stops[k].ArriveAt
    /\ (RReturned /\ rRet.hasPlan) =>
          /\ rRet.plan.Stops = stops
          /\ rRet.plan.DepartAt = DepartAt
          /\ stops # <<>> =>
                stops[Len(stops)].ArriveAt =
                   DepartAt + rRet.plan.TotalDurationSeconds - ReturnLegDuration

\* C38 witness: a plan of three stops with legs of different durations has
\* been returned after a return leg that took time.
C38_Witness ==
    /\ RReturned /\ rRet.hasPlan
    /\ rReturnToStart
    /\ Len(rRet.plan.Stops) = 3
    /\ LegDuration(stops, 1) # LegDuration(stops, 2)
    /\ ReturnLegDuration > 0
    /\ rRet.plan.Stops[3].ArriveAt < DepartAt + rRet.plan.TotalDurationSeconds


\* ---- Claims about the entries of the distance cache ----

\* what the matrix source answers for a pair of normalised addresses at an
\* epoch of its road data, as fetchMatrixRow rounds it
SourceResult(o, d, epoch) ==
    LET from == CoordsToList(Geocoder(o))
        to == CoordsToList(Geocoder(d))
    IN DistanceResult(DistanceMetric(from, to, epoch), DurationMetric(from, to, epoch))

\* caller i makes the step that writes its fetched row back
PutBy(i) == shCalls[i].pc = "distancePut" /\ shCalls'[i].pc = "done"

\* the keys whose entry the step has written: new, or with another value
WrittenKeys ==
    {k \in DOMAIN shDistance' : k \notin DOMAIN shDistance \/ shDistance'[k] # shDistance[k]}

\* C39: in every state, also while several GetDistances calls run at the
\* same time on the shared caches and after calls that failed, each entry
\* (origin, destination) of the distance cache holds a value the matrix
\* source returned for that origin and that destination; every step that
\* changes the cache is the write-back of one call, which writes only under
\* its normalised origin and only for destinations that were cache misses
\* of that call, the value being that of the validated response of the
\* call, and no step removes an entry.
C39_CacheEntriesFromSource ==
    /\ [](\A k \in DOMAIN shDistance :
             \E epoch \in {0, 1} : shDistance[k] = SourceResult(k[1], k[2], epoch))
    /\ [][/\ DOMAIN shDistance \subseteq DOMAIN shDistance'
          /\ \A k \in WrittenKeys :
                \E i \in DOMAIN shCalls :
                   /\ PutBy(i)
                   /\ k[1] = CallNormOrigin(shCalls[i])
                   /\ k[2] \in SeqToSet(CallMisses(shCalls[i]))
                   /\ shDistance'[k] = shCalls[i].fetched[k[2]]
                   /\ shDistance'[k] = SourceResult(k[1], k[2], 1)]_vars

\* C39 witness: two calls for one normalised origin run at the same time,
\* one of them by a caller whose earlier call failed:
\* both read the cache before either wrote, one has written its row and
\* returned, and the other is about to write an entry that is a miss of its
\* call and is in the cache by now; the cache keeps the entry of an earlier
\* request.
C39_Witness ==
    \E i, j \in DOMAIN shCalls :
       /\ i # j
       /\ shCalls[i].pc = "distancePut"
       /\ shCalls[i].call > 1
       /\ shCalls[j].pc = "done" /\ shCalls[j].err = "nil"
       /\ CallNormOrigin(shCalls[i]) = CallNormOrigin(shCalls[j])
       /\ shCalls[i].origin # shCalls[j].origin
       /\ \E d \in SeqToSet(CallMisses(shCalls[i])) :
             /\ <<CallNormOrigin(shCalls[i]), d>> \in DOMAIN shDistance
             /\ shDistance[<<CallNormOrigin(shCalls[i]), d>>] = shCalls[j].fetched[d]
       /\ \E k \in DOMAIN shDistance : shDistance[k] = SourceResult(k[1], k[2], 0)

=============================================================================
